---- MODULE Spec2Model ----
(***************************************************************************)
(* nvml-gpu-ha: the polling daemon that samples NVIDIA GPU metrics through *)
(* NVML and republishes them over MQTT for Home Assistant.                 *)
(*                                                                         *)
(* The model follows run() of the daemon: start-up (NVML init, device      *)
(* enumeration, broker connect, sensor registration), the ticker loop,     *)
(* monitorGPUs with its per-GPU goroutines, GetGPUMetrics with its inner   *)
(* goroutine, the request mutex and the 10 s timer, publishMetrics, and    *)
(* the deferred clean-up on shutdown.                                      *)
(*                                                                         *)
(* Time is kept in whole seconds as ages of the running timers.  A step of *)
(* the program takes no time; the clock advances only when no step of the  *)
(* program is ready.  The hardware library and the broker are the          *)
(* environment: they answer at once, late, with an error, or never.        *)
(***************************************************************************)
EXTENDS Integers, FiniteSets, Sequences, TLC

(* ---- bounds of the model ---- *)
NumDevices == 2        \* GPUs the enumeration may report
MaxPeriod  == 3        \* polling periods 1..MaxPeriod seconds
MaxFaults  == 1        \* anomalies of the environment in one run
MaxOrphans == 1        \* abandoned queries counted per device (saturating)
MaxBusChars  == 3      \* hex digits a varied position of a bus id takes
MaxUuidChars == 3      \* hex digits a varied position of a UUID takes
MaxBusLen    == 6      \* length of the irregular bus id strings
MaxSkips     == 3      \* ticks skipped in a row that are counted (saturating)

(* ---- constants of the program ---- *)
QueryTimeout   == 10   \* time.After(10 * time.Second) in GetGPUMetrics
PublishTimeout == 5    \* token.WaitTimeout(5 * time.Second)

Devices == 1..NumDevices

\* the sensor keys, in the order of the slice in RegisterGPUSensors
Sensors == <<"power_draw", "performance_level", "memory_usage",
             "gpu_utilization", "temperature">>

\* the sensor keys of RemoveGPUSensors, in the order of its list
RemoveSensors == <<"power_draw", "performance_level", "memory_usage",
                   "gpu_utilization", "temperature">>

\* the elements of a slice
SeqRange(s) == {s[i] : i \in 1..Len(s)}

\* the keys of the map in publishMetrics
Metrics == {"power_draw", "performance_level", "memory_usage",
            "gpu_utilization", "temperature"}

\* the NVML calls of getGPUMetricsInternal, in program order; call i fills
\* the field published under Sensors[i]
QueryCalls == <<"power", "perf", "memory", "util", "temp">>

RetCodes == {"SUCCESS", "NOT_SUPPORTED", "ERROR"}

RetVectors == [1..5 -> RetCodes]

\* number of calls of a return vector that do not succeed
RetFaults(rets) == Cardinality({i \in 1..5 : rets[i] # "SUCCESS"})

\* variant: memory info treated like the optional calls
CallFails_MemoryOptional(i, ret) == ret \notin {"SUCCESS", "NOT_SUPPORTED"}

\* a failing return of call i: memory info must succeed, the others may
\* also be unsupported
CallFails(i, ret) ==
    IF QueryCalls[i] = "memory" THEN ret # "SUCCESS"
    ELSE ret \notin {"SUCCESS", "NOT_SUPPORTED"}

\* index of the first failing call, 0 when none fails
FirstFailure(rets) ==
    IF \E i \in 1..5 : CallFails(i, rets[i])
    THEN CHOOSE i \in 1..5 : /\ CallFails(i, rets[i])
                             /\ \A j \in 1..(i-1) : ~CallFails(j, rets[j])
    ELSE 0

\* result of getGPUMetricsInternal: the failing call (or "none") and the set
\* of fields that were assigned a reading; the other fields keep Go's zero
\* value
getGPUMetricsInternal(rets) ==
    LET f == FirstFailure(rets) IN
    [err     |-> IF f = 0 THEN "none" ELSE QueryCalls[f],
     metrics |-> {Sensors[i] : i \in {j \in 1..5 :
                      /\ rets[j] = "SUCCESS"
                      /\ (f = 0 \/ j < f)}}]

(***************************************************************************)
(* Strings.  A Go string is a sequence of one-character strings, so that   *)
(* splitting, replacing, cutting and lower-casing act on characters.  The  *)
(* strings of the program are ASCII, where Go's len counts characters.     *)
(***************************************************************************)

Digits == <<"0", "1", "2", "3", "4", "5", "6", "7", "8", "9">>

UpperChars == <<"A", "B", "C", "D", "E", "F", "G", "H", "I", "J", "K", "L",
                "M", "N", "O", "P", "Q", "R", "S", "T", "U", "V", "W", "X",
                "Y", "Z">>

LowerChars == <<"a", "b", "c", "d", "e", "f", "g", "h", "i", "j", "k", "l",
                "m", "n", "o", "p", "q", "r", "s", "t", "u", "v", "w", "x",
                "y", "z">>

\* strings.ToLower on one character
LowerChar(c) ==
    IF \E i \in 1..26 : UpperChars[i] = c
    THEN LowerChars[CHOOSE i \in 1..26 : UpperChars[i] = c]
    ELSE c

\* strings.ToLower
ToLower(s) == [i \in 1..Len(s) |-> LowerChar(s[i])]

\* strings.Replace(s, old, new, -1) for a one-character old; new is a string
\* (empty to delete)
RECURSIVE ReplaceAll(_, _, _)
ReplaceAll(s, old, new) ==
    IF s = <<>> THEN <<>>
    ELSE (IF Head(s) = old THEN new ELSE <<Head(s)>>)
             \o ReplaceAll(Tail(s), old, new)

\* strings.Split(s, sep) for a one-character sep: the segments between the
\* separators, Len = number of separators + 1
RECURSIVE Split(_, _)
Split(s, sep) ==
    IF \A i \in 1..Len(s) : s[i] # sep THEN <<s>>
    ELSE LET k == CHOOSE i \in 1..Len(s) :
                      s[i] = sep /\ \A j \in 1..(i-1) : s[j] # sep
         IN  <<SubSeq(s, 1, k - 1)>> \o Split(SubSeq(s, k + 1, Len(s)), sep)

\* variant: the domain is cut to its first 2 characters
GetShortPCIBusID_FirstTwo(pciBusID) ==
    LET parts == Split(pciBusID, ":") IN
    IF Len(parts) >= 3
    THEN LET domain == IF Len(parts[1]) > 2
                       THEN SubSeq(parts[1], 1, 2)
                       ELSE parts[1]
         IN  domain \o <<":">> \o parts[2] \o <<":">> \o parts[3]
    ELSE pciBusID

\* GetShortPCIBusID: with 3 or more segments, the domain cut to its last 2
\* characters, then segments 2 and 3; any other string as it is
GetShortPCIBusID(pciBusID) ==
    LET parts == Split(pciBusID, ":") IN
    IF Len(parts) >= 3
    THEN LET domain == IF Len(parts[1]) > 2
                       THEN SubSeq(parts[1], Len(parts[1]) - 1, Len(parts[1]))
                       ELSE parts[1]
         IN  domain \o <<":">> \o parts[2] \o <<":">> \o parts[3]
    ELSE pciBusID

\* length of the UUID suffix of GetDeviceID: uuidSuffix[:8]
UuidSuffixLen == 8

\* variant: the suffix is cut from the UUID after its "GPU-" prefix
UuidSuffix_AfterPrefix(uuid) ==
    LET stripped == ReplaceAll(uuid, "-", <<>>)
        hex      == IF Len(stripped) >= 3
                       /\ SubSeq(stripped, 1, 3) = <<"G", "P", "U">>
                    THEN SubSeq(stripped, 4, Len(stripped))
                    ELSE stripped
    IN  IF Len(hex) > UuidSuffixLen THEN SubSeq(hex, 1, UuidSuffixLen)
        ELSE hex

\* the UUID suffix of GetDeviceID: hyphens removed, cut to 8 characters
UuidSuffix(uuid) ==
    LET stripped == ReplaceAll(uuid, "-", <<>>) IN
    IF Len(stripped) > UuidSuffixLen THEN SubSeq(stripped, 1, UuidSuffixLen)
    ELSE stripped

\* variant: the enumeration index is part of the identifier
GetDeviceID_WithIndex(device) ==
    LET short == GetShortPCIBusID(device.PCIBusID)
        id    == ReplaceAll(ReplaceAll(short, ":", <<"_">>), ".", <<"_">>)
    IN  ToLower(id \o <<"_">> \o UuidSuffix(device.UUID)
                \o <<"_", Digits[device.Index + 1]>>)

\* GetDeviceID: the short bus id with ':' and '.' replaced by '_', then '_'
\* and the UUID suffix, all lower-cased
GetDeviceID(device) ==
    LET short    == GetShortPCIBusID(device.PCIBusID)
        deviceID == ReplaceAll(ReplaceAll(short, ":", <<"_">>), ".", <<"_">>)
    IN  ToLower(deviceID \o <<"_">> \o UuidSuffix(device.UUID))

\* strings.ToUpper on one character
UpperChar(c) ==
    IF \E i \in 1..26 : LowerChars[i] = c
    THEN UpperChars[CHOOSE i \in 1..26 : LowerChars[i] = c]
    ELSE c

\* strings.ToUpper
ToUpper(s) == [i \in 1..Len(s) |-> UpperChar(s[i])]

\* strings.HasPrefix
HasPrefix(s, prefix) ==
    Len(s) >= Len(prefix) /\ SubSeq(s, 1, Len(prefix)) = prefix

\* strings.TrimPrefix: s without the prefix when it starts with it, s as it
\* is otherwise
TrimPrefix(s, prefix) ==
    IF HasPrefix(s, prefix) THEN SubSeq(s, Len(prefix) + 1, Len(s)) ELSE s

\* a natural number in decimal digits
RECURSIVE FormatInt(_)
FormatInt(n) ==
    IF n < 10 THEN <<Digits[n + 1]>>
    ELSE FormatInt(n \div 10) \o <<Digits[(n % 10) + 1]>>

\* MiB in a GiB: the memory of a device is kept in MiB here (NVML reports
\* bytes, whole MiB on every device), so float64(Memory)/(1024*1024*1024)
\* is mib / 1024
MiBPerGiB == 1024

\* fmt "%.0f" of mib / 1024: the nearest whole number, a tie going to the
\* even one
WholeGB(mib) ==
    LET q == mib \div MiBPerGiB
        r == mib % MiBPerGiB
    IN  IF 2 * r > MiBPerGiB \/ (2 * r = MiBPerGiB /\ q % 2 = 1)
        THEN q + 1 ELSE q

\* the vendor prefix GetDeviceDisplayName looks for and removes
VendorPrefix == <<"N", "V", "I", "D", "I", "A", " ">>

\* GetDeviceDisplayName: "%s %s - NVIDIA %s %.0fGB" of the hostname, the
\* short bus id, the model name and the memory in GB; the model name is the
\* device name, passed through TrimPrefix when its upper-cased form starts
\* with the vendor prefix
GetDeviceDisplayName(device, hostname) ==
    LET modelName == IF HasPrefix(ToUpper(device.Name), VendorPrefix)
                     THEN TrimPrefix(device.Name, VendorPrefix)
                     ELSE device.Name
    IN  hostname \o <<" ">> \o GetShortPCIBusID(device.PCIBusID)
        \o <<" ", "-", " ">> \o VendorPrefix \o modelName \o <<" ">>
        \o FormatInt(WholeGB(device.Memory)) \o <<"G", "B">>

TopicPrefix ==
    <<"h", "o", "m", "e", "a", "s", "s", "i", "s", "t", "a", "n", "t", "/",
      "s", "e", "n", "s", "o", "r", "/", "n", "v", "m", "l", "-", "g", "p",
      "u", "/">>

StateSuffix ==
    <<"/", "s", "t", "a", "t", "e">>

ConfigSuffix ==
    <<"/", "c", "o", "n", "f", "i", "g">>

\* the sensor keys as Go strings
KeyChars ==
    [k \in Metrics |->
       IF k = "power_draw" THEN
          <<"p", "o", "w", "e", "r", "_", "d", "r", "a", "w">>
       ELSE IF k = "performance_level" THEN
          <<"p", "e", "r", "f", "o", "r", "m", "a", "n", "c", "e", "_",
            "l", "e", "v", "e", "l">>
       ELSE IF k = "memory_usage" THEN
          <<"m", "e", "m", "o", "r", "y", "_", "u", "s", "a", "g", "e">>
       ELSE IF k = "gpu_utilization" THEN
          <<"g", "p", "u", "_", "u", "t", "i", "l", "i", "z", "a", "t",
            "i", "o", "n">>
       ELSE
          <<"t", "e", "m", "p", "e", "r", "a", "t", "u", "r", "e">>]

\* variant: the state topic of the record names the key before the device
registerStateTopic_KeyFirst(id, sensorKey) ==
    TopicPrefix \o KeyChars[sensorKey] \o <<"_">> \o id \o StateSuffix

\* registerSensor: fmt.Sprintf(".../%s_%s/state", deviceID, sensorKey)
registerStateTopic(id, sensorKey) ==
    TopicPrefix \o id \o <<"_">> \o KeyChars[sensorKey] \o StateSuffix

\* registerSensor: fmt.Sprintf(".../%s_%s/config", deviceID, sensorKey)
registerConfigTopic(id, sensorKey) ==
    TopicPrefix \o id \o <<"_">> \o KeyChars[sensorKey] \o ConfigSuffix

\* RemoveGPUSensors: fmt.Sprintf(".../%s_%s/config", deviceID, sensor)
removeConfigTopic(id, sensor) ==
    TopicPrefix \o id \o <<"_">> \o KeyChars[sensor] \o ConfigSuffix

\* publishMetrics: fmt.Sprintf(".../%s_%s/state", deviceID, sensor)
publishStateTopic(id, sensor) ==
    TopicPrefix \o id \o <<"_">> \o KeyChars[sensor] \o StateSuffix

\* the GPUs of the machine as GetGPUDevices reports them: device d sits on
\* bus 03+d and the UUIDs differ in their last character; all are of one
\* model with 16 GiB
HwDevice(d) ==
    [Index    |-> d - 1,
     PCIBusID |-> <<"0", "0", "0", "0", "0", "0", "0", "0", ":", "0">>
                  \o <<Digits[d + 4]>> \o <<":", "0", "0", ".", "0">>,
     UUID     |-> <<"G", "P", "U", "-", "1", "a", "2", "b", "3", "c", "4",
                    "d", "-", "5", "e", "6">>
                  \o <<Digits[d + 1]>>,
     Name     |-> <<"N", "V", "I", "D", "I", "A", " ", "A", "2">>,
     Memory   |-> 16 * MiBPerGiB]

\* the deviceID of each GPU, as RegisterGPUSensors and publishMetrics both
\* compute it with GetDeviceID
deviceIDs == [d \in Devices |-> GetDeviceID(HwDevice(d))]

NoResult == [err |-> "empty", metrics |-> {}]

\* no answer of the library yet
NoRets == [i \in 1..5 |-> "NONE"]

NoCall == [dev |-> 0, mode |-> "none", orphan |-> FALSE, old |-> FALSE]

IdleTask == [pc |-> "none", age |-> 0, call |-> "none", done |-> NoResult,
             rets |-> NoRets,
             result |-> "none", err |-> "none", blocked |-> "none",
             sample |-> {}, pubDone |-> {}, pubFailed |-> FALSE]

VARIABLES
    cfg,              \* configuration: PollingPeriod, MQTTLWTEnable, MQTTRetain
    pc,               \* position of the main goroutine in run()
    gpus,             \* the enumerated devices
    requestMutex,     \* "free", "main" or "query"
    inHw,             \* the metric query inside the NVML library, or NoCall
    orphans,          \* per device: abandoned queries waiting for requestMutex
    regDev, regIdx,   \* registration: device and sensor index in progress
    configPub,        \* <<device, key>> whose discovery record was published
    regFailed,        \* devices whose RegisterGPUSensors returned an error
    monitoringMutex,  \* TRUE while monitorGPUs holds it
    isMonitoring,     \* the in-progress flag
    sinceLastMonitor, \* time.Since(lastMonitorTime), saturating
    tickIn,           \* seconds until the ticker fires next
    tickC,            \* TRUE when ticker.C holds a tick (buffer of one)
    tickOutcome,      \* what monitorGPUs did with the last tick it handled
    skips,            \* ticks monitorGPUs has skipped since the last cycle
    ctxDone,          \* TRUE once the shutdown signal cancelled the context
    sigAt,            \* where main was when the signal arrived ("none" before)
    wg,               \* the WaitGroup counter of the running cycle
    task,             \* per device: the sample goroutine of the cycle
    faults,           \* anomalies of the environment so far
    mqtt,             \* the bus connection: state, last will, availability
    fatalAt,          \* where log.Fatal ended the process ("none" otherwise)
    idDev, idDev2,    \* identity functions: the devices given to them
    idHost,           \* identity functions: the hostname given to them
    idOut,            \* identity functions: what they returned
    mgr,              \* discovery manager: the call in progress
    mgrHist,          \* discovery manager: per device, the last calls made
    retained,         \* the broker: last payload delivered per config topic
    qry               \* getGPUMetricsInternal called on its own: its progress

vars == <<cfg, pc, gpus, requestMutex, inHw, orphans, regDev, regIdx,
          configPub, regFailed, monitoringMutex, isMonitoring,
          sinceLastMonitor, tickIn, tickC, tickOutcome, skips, ctxDone,
          sigAt, wg, task, faults, mqtt, fatalAt, idDev, idDev2, idHost,
          idOut, mgr, mgrHist, retained, qry>>

startupVars == <<gpus, regDev, regIdx, configPub, regFailed>>
nvmlVars    == <<requestMutex, inHw, orphans>>
schedVars   == <<monitoringMutex, isMonitoring, sinceLastMonitor,
                 tickOutcome, skips>>
clockVars   == <<tickIn, tickC>>
sigVars     == <<ctxDone, sigAt>>
procVars    == <<mqtt, fatalAt>>
idVars      == <<idDev, idDev2, idHost, idOut>>
idInputs    == <<idDev, idDev2, idHost>>
mgrVars     == <<mgr, mgrHist, retained>>
harnessVars == <<idVars, mgrVars, qry>>
daemonVars  == <<cfg, pc, startupVars, nvmlVars, schedVars, clockVars,
                 sigVars, wg, task, procVars>>

\* before setupMQTTClient: no client, no will registered, nothing published
\* on the availability topic
NoConnection == [conn |-> "none", will |-> "none", willTopic |-> <<>>,
                 avail |-> "none", availTopic |-> <<>>]

\* the hostname of the daemon in the examples
ExampleHost == <<"S", "E", "R", "V", "E", "R", "1">>

\* no identity function has returned yet
NoIds == [done |-> {}, id1 |-> <<>>, id2 |-> <<>>, again |-> <<>>,
          short |-> <<>>, name |-> <<>>]

\* getGPUMetricsInternal is not called on its own: no answers of the
\* library chosen, no call made, nothing returned, nothing published
NoQuery == [at |-> "idle", rets |-> NoRets, made |-> <<>>, out |-> NoResult,
            published |-> {}]

\* the discovery manager is not inside a call
NoMgrCall == [op |-> "idle", dev |-> 0, idx |-> 0, clean |-> TRUE]

\* nothing was registered or removed for a device yet: how the last
\* RegisterGPUSensors ended and the topics it published to, and the same for
\* the RemoveGPUSensors made after it
NoMgrHist == [reg |-> "none", regTopics |-> {},
              rem |-> "none", remTopics |-> {}]

\* time.Since saturates here: every value >= MaxPeriod passes every guard
SinceCap == MaxPeriod

Min(a, b) == IF a < b THEN a ELSE b

\* the process when run() is entered, whatever its configuration
ProcessStart ==
    /\ pc = "nvmlInit"
    /\ gpus = {}
    /\ requestMutex = "free"
    /\ inHw = NoCall
    /\ orphans = [d \in Devices |-> 0]
    /\ regDev = 0
    /\ regIdx = 0
    /\ configPub = {}
    /\ regFailed = {}
    /\ monitoringMutex = FALSE
    /\ isMonitoring = FALSE
    /\ sinceLastMonitor = SinceCap
    /\ tickIn = 0
    /\ tickC = FALSE
    /\ tickOutcome = "none"
    /\ skips = 0
    /\ ctxDone = FALSE
    /\ sigAt = "none"
    /\ wg = 0
    /\ task = [d \in Devices |-> IdleTask]
    /\ faults = 0
    /\ mqtt = NoConnection
    /\ fatalAt = "none"

\* the daemon with the default configuration but for the polling period:
\* LWT enabled and messages retained
DaemonInit ==
    /\ cfg \in [PollingPeriod : 1..MaxPeriod, MQTTLWTEnable : {TRUE},
                MQTTRetain : {TRUE}]
    /\ ProcessStart

\* the identity functions and the discovery manager are not called on their
\* own while the daemon runs
HarnessIdle ==
    /\ idDev = HwDevice(1)
    /\ idDev2 = HwDevice(1)
    /\ idHost = ExampleHost
    /\ idOut = NoIds
    /\ mgr = NoMgrCall
    /\ mgrHist = [d \in Devices |-> NoMgrHist]
    /\ retained = [t \in {} |-> "none"]
    /\ qry = NoQuery

Init == DaemonInit /\ HarnessIdle

(***************************************************************************)
(* Start-up: run() up to the creation of the ticker                        *)
(***************************************************************************)

\* nvidia.Init(): log.Fatal on failure, before anything is deferred
NvmlInit ==
    /\ pc = "nvmlInit"
    /\ requestMutex = "free"
    /\ \E ok \in BOOLEAN :
          /\ (~ok) => faults < MaxFaults
          /\ pc' = IF ok THEN "versions" ELSE "fatal"
          /\ fatalAt' = IF ok THEN fatalAt ELSE "nvmlInit"
          /\ faults' = IF ok THEN faults ELSE faults + 1
    /\ UNCHANGED <<cfg, harnessVars, mqtt, startupVars, nvmlVars, schedVars,
                   clockVars, sigVars, wg, task>>

\* GetNVMLVersion() and GetDriverVersion(): each takes and releases
\* requestMutex; their errors are ignored
GetVersions ==
    /\ pc = "versions"
    /\ requestMutex = "free"
    /\ pc' = "enumerate"
    /\ UNCHANGED <<cfg, harnessVars, procVars, startupVars, nvmlVars,
                   schedVars, clockVars, sigVars, wg, task, faults>>

\* variant: only an error of the enumeration is fatal
EnumerationFatal_ErrorOnly(ok, count) == ~ok

\* run() after nvidia.GetGPUDevices(): log.Fatal on an error and on an empty
\* list
EnumerationFatal(ok, count) == ~ok \/ count = 0

\* nvidia.GetGPUDevices() and the two checks of run() on its result
GetGPUDevices ==
    /\ pc = "enumerate"
    /\ requestMutex = "free"
    /\ \E ok \in BOOLEAN, count \in 0..NumDevices :
          /\ (~ok \/ count = 0) => faults < MaxFaults
          /\ IF ~EnumerationFatal(ok, count)
             THEN /\ gpus' = 1..count
                  /\ pc' = "connect"
                  /\ UNCHANGED fatalAt
                  /\ faults' = faults
             ELSE /\ gpus' = {}
                  /\ pc' = "fatal"
                  /\ fatalAt' = "enumerate"
                  /\ faults' = faults + 1
    /\ UNCHANGED <<cfg, harnessVars, mqtt, regDev, regIdx, configPub,
                   regFailed, nvmlVars, schedVars, clockVars, sigVars, wg,
                   task>>

\* the topic of the will: opts.SetWill(topic, "offline", 1, cfg.MQTTRetain)
willTopic ==
    <<"h", "o", "m", "e", "a", "s", "s", "i", "s", "t", "a", "n", "t", "/",
      "s", "e", "n", "s", "o", "r", "/", "n", "v", "m", "l", "-", "g", "p",
      "u", "-", "h", "a", "/", "a", "v", "a", "i", "l", "a", "b", "i", "l",
      "i", "t", "y">>

\* the topic the OnConnect handler publishes "online" to
onConnectTopic ==
    <<"h", "o", "m", "e", "a", "s", "s", "i", "s", "t", "a", "n", "t", "/",
      "s", "e", "n", "s", "o", "r", "/", "n", "v", "m", "l", "-", "g", "p",
      "u", "-", "h", "a", "/", "a", "v", "a", "i", "l", "a", "b", "i", "l",
      "i", "t", "y">>

\* the OnConnect handler: "online" is published when LWT is enabled, and
\* nothing otherwise
OnConnect(client) ==
    IF cfg.MQTTLWTEnable
    THEN [client EXCEPT !.avail = "online", !.availTopic = onConnectTopic]
    ELSE client

\* the client after a successful Connect: the will is registered with the
\* broker when LWT is enabled and the OnConnect handler has run
Connected ==
    OnConnect([conn       |-> "up",
               will       |-> IF cfg.MQTTLWTEnable THEN "offline" ELSE "none",
               willTopic  |-> IF cfg.MQTTLWTEnable THEN willTopic ELSE <<>>,
               avail      |-> "none",
               availTopic |-> <<>>])

\* setupMQTTClient(): a failed Connect is fatal
setupMQTTClient ==
    /\ pc = "connect"
    /\ \E ok \in BOOLEAN :
          /\ (~ok) => faults < MaxFaults
          /\ IF ok
             THEN /\ pc' = "register"
                  /\ mqtt' = Connected
                  /\ regDev' = 1
                  /\ regIdx' = 1
                  /\ UNCHANGED fatalAt
                  /\ faults' = faults
             ELSE /\ pc' = "fatal"
                  /\ fatalAt' = "connect"
                  /\ UNCHANGED <<mqtt, regDev, regIdx>>
                  /\ faults' = faults + 1
    /\ UNCHANGED <<cfg, harnessVars, gpus, configPub, regFailed, nvmlVars,
                   schedVars, clockVars, sigVars, wg, task>>

\* variant: the discovery records name another availability topic
AvailabilityTopic_Other ==
    <<"h", "o", "m", "e", "a", "s", "s", "i", "s", "t", "a", "n", "t", "/",
      "s", "e", "n", "s", "o", "r", "/", "n", "v", "m", "l", "-", "g", "p",
      "u", "/", "a", "v", "a", "i", "l", "a", "b", "i", "l", "i", "t", "y">>

\* sensorConfig.AvailabilityTopic when LWT is enabled
AvailabilityTopic ==
    <<"h", "o", "m", "e", "a", "s", "s", "i", "s", "t", "a", "n", "t", "/",
      "s", "e", "n", "s", "o", "r", "/", "n", "v", "m", "l", "-", "g", "p",
      "u", "-", "h", "a", "/", "a", "v", "a", "i", "l", "a", "b", "i", "l",
      "i", "t", "y">>

\* variant: every discovery record is published retained
sensorConfig_Retained(d, k) ==
    [configTopic |-> registerConfigTopic(deviceIDs[d], k),
     state_topic |-> registerStateTopic(deviceIDs[d], k),
     availability_topic |->
         IF cfg.MQTTLWTEnable THEN AvailabilityTopic ELSE <<>>,
     payload_available |-> IF cfg.MQTTLWTEnable THEN "online" ELSE "",
     payload_not_available |-> IF cfg.MQTTLWTEnable THEN "offline" ELSE "",
     retain      |-> TRUE]

\* the discovery record registerSensor builds for sensor key k of device d,
\* and the topic and retain flag it is published with; the availability
\* fields are left empty (and omitted from the JSON) when LWT is disabled
sensorConfig(d, k) ==
    [configTopic |-> registerConfigTopic(deviceIDs[d], k),
     state_topic |-> registerStateTopic(deviceIDs[d], k),
     availability_topic |->
         IF cfg.MQTTLWTEnable THEN AvailabilityTopic ELSE <<>>,
     payload_available |-> IF cfg.MQTTLWTEnable THEN "online" ELSE "",
     payload_not_available |-> IF cfg.MQTTLWTEnable THEN "offline" ELSE "",
     retain      |-> cfg.MQTTRetain]

\* outcomes of a publish that is waited for with a timeout
PubOutcomes == {"ack", "error", "timeout"}

\* registerSensor returns an error unless the publish was acknowledged
registerSensorFails(outcome) == outcome # "ack"

\* RegisterGPUSensors leaves its loop when registerSensor returned an error
\* or when the list of sensors is exhausted
RegisterReturns(failed, idx) == failed \/ idx = Len(Sensors)

\* the state after the registration loop of run(): the signal handler is
\* installed and the ticker created
StartLoop ==
    /\ pc' = "loop"
    /\ tickIn' = cfg.PollingPeriod
    /\ tickC' = FALSE

\* variant: run() registers the sensors of the first GPU only
MoreDevices_OnlyFirst == FALSE

\* the loop of run() over gpus has another device to register
MoreDevices == regDev + 1 \in gpus

\* one iteration of the loop of RegisterGPUSensors for device regDev: the
\* discovery record of sensor regIdx is published and waited for
RegisterSensor ==
    /\ pc = "register"
    /\ \E outcome \in PubOutcomes :
          LET failed == registerSensorFails(outcome) IN
          /\ failed => faults < MaxFaults
          /\ faults' = IF failed THEN faults + 1 ELSE faults
          /\ configPub' = configPub \cup {<<regDev, Sensors[regIdx]>>}
          /\ regFailed' = IF failed THEN regFailed \cup {regDev} ELSE regFailed
          /\ IF RegisterReturns(failed, regIdx)
             THEN IF MoreDevices
                  THEN /\ regDev' = regDev + 1
                       /\ regIdx' = 1
                       /\ UNCHANGED <<pc, clockVars>>
                  ELSE /\ regDev' = 0
                       /\ regIdx' = 0
                       /\ StartLoop
             ELSE /\ regIdx' = regIdx + 1
                  /\ UNCHANGED <<regDev, pc, clockVars>>
    /\ UNCHANGED <<cfg, harnessVars, procVars, gpus, nvmlVars, schedVars,
                   sigVars, wg, task>>

(***************************************************************************)
(* The ticker loop of run() and monitorGPUs                                *)
(***************************************************************************)

\* the process runs until main returns or log.Fatal exits
Alive == pc \notin {"exited", "fatal"}

\* the shutdown signal: the handler goroutine calls cancel()
Signal ==
    /\ pc \in {"loop", "cycle"}
    /\ ~ctxDone
    /\ ctxDone' = TRUE
    /\ sigAt' = pc
    /\ UNCHANGED <<cfg, harnessVars, procVars, pc, startupVars, nvmlVars,
                   schedVars, clockVars, wg, task, faults>>

\* variant: the cycle runs beside the loop, as if started with "go"
AtSelect_Async == pc \in {"loop", "cycle"}

\* the main goroutine is at the select of the loop; monitorGPUs is called
\* from the select and the loop comes back to it when monitorGPUs returns
AtSelect == pc = "loop"

\* guard (a) of monitorGPUs
StillMonitoring == isMonitoring

\* guard (b) of monitorGPUs:
\*   time.Since(lastMonitorTime) < time.Duration(cfg.PollingPeriod/2)*time.Second
\* with Go's integer division of the period
TooSoon == sinceLastMonitor < (cfg.PollingPeriod \div 2)

\* variant: the task publishes before it has asked the library
LaunchedTask_PublishFirst == [IdleTask EXCEPT !.pc = "publish"]

\* the task of one GPU as it is launched: GetGPUMetrics has created the done
\* channel, started the goroutine of getGPUMetricsInternal (which waits for
\* requestMutex) and waits for the result or the timer
LaunchedTask == [IdleTask EXCEPT !.pc = "wait", !.call = "lock"]

\* variant: the in-progress flag is set before the guards and a skipped
\* tick returns without clearing it
SkipTick_FlagLeft(outcome) ==
    /\ tickOutcome' = outcome
    /\ skips' = Min(skips + 1, MaxSkips)
    /\ isMonitoring' = TRUE
    /\ UNCHANGED <<pc, monitoringMutex, wg, task, inHw>>

\* a guard of monitorGPUs fails: the skip is logged, monitorGPUs returns and
\* the mutex is released
SkipTick(outcome) ==
    /\ tickOutcome' = outcome
    /\ skips' = Min(skips + 1, MaxSkips)
    /\ UNCHANGED <<pc, monitoringMutex, isMonitoring, wg, task, inHw>>

\* case <-ticker.C: monitorGPUs(mqttClient, gpus), up to wg.Wait()
LoopTick ==
    /\ AtSelect
    /\ tickC
    /\ tickC' = FALSE
    /\ IF StillMonitoring
       THEN SkipTick("skipOverlap")
       ELSE IF TooSoon
       THEN SkipTick("skipTooSoon")
       ELSE /\ tickOutcome' = "started"
            /\ skips' = 0
            /\ pc' = "cycle"
            /\ monitoringMutex' = TRUE
            /\ isMonitoring' = TRUE
            /\ wg' = Cardinality(gpus)
            /\ task' = [d \in Devices |->
                          IF d \in gpus THEN LaunchedTask ELSE IdleTask]
            /\ inHw' = IF inHw.dev # 0 THEN [inHw EXCEPT !.old = TRUE]
                       ELSE inHw
    /\ UNCHANGED <<cfg, harnessVars, procVars, startupVars, requestMutex,
                   orphans, sinceLastMonitor, tickIn, sigVars, faults>>

\* variant: monitorGPUs does not join its tasks
WgWaitDone_NoJoin == TRUE

\* variant: the join returns as soon as one task has finished
WgWaitDone_AnyTask == wg < Cardinality(gpus)

\* wg.Wait() returns when every task of the cycle has called wg.Done()
WgWaitDone == wg = 0

\* variant: the deferred function never clears the in-progress flag
EndCycle_KeepFlag ==
    /\ pc = "cycle"
    /\ WgWaitDone
    /\ pc' = "loop"
    /\ sinceLastMonitor' = 0
    /\ monitoringMutex' = FALSE
    /\ UNCHANGED <<cfg, harnessVars, procVars, startupVars, nvmlVars,
                   isMonitoring, tickOutcome, skips, clockVars, sigVars, wg,
                   task, faults>>

\* variant: the flag is cleared but the completion time is not recorded
EndCycle_NoTimestamp ==
    /\ pc = "cycle"
    /\ WgWaitDone
    /\ pc' = "loop"
    /\ isMonitoring' = FALSE
    /\ monitoringMutex' = FALSE
    /\ UNCHANGED <<cfg, harnessVars, procVars, startupVars, nvmlVars,
                   sinceLastMonitor, tickOutcome, skips, clockVars, sigVars,
                   wg, task, faults>>

\* monitorGPUs after wg.Wait(): the deferred function clears the flag and
\* records the completion time, then the mutex is released
EndCycle ==
    /\ pc = "cycle"
    /\ WgWaitDone
    /\ pc' = "loop"
    /\ isMonitoring' = FALSE
    /\ sinceLastMonitor' = 0
    /\ monitoringMutex' = FALSE
    /\ UNCHANGED <<cfg, harnessVars, procVars, startupVars, nvmlVars,
                   tickOutcome, skips, clockVars, sigVars, wg, task, faults>>

\* case <-ctx.Done(): return; ticker.Stop and cancel run as deferred calls
LoopShutdown ==
    /\ AtSelect
    /\ ctxDone
    /\ pc' = "disconnect"
    /\ UNCHANGED <<cfg, harnessVars, procVars, startupVars, nvmlVars,
                   schedVars, clockVars, sigVars, wg, task, faults>>

\* variant: the process publishes "offline" before it disconnects
Disconnect_SaysOffline ==
    /\ pc = "disconnect"
    /\ pc' = "nvmlShutdown"
    /\ mqtt' = [mqtt EXCEPT !.conn = "closed",
                            !.avail = IF cfg.MQTTLWTEnable
                                      THEN "offline" ELSE @]
    /\ UNCHANGED <<cfg, harnessVars, fatalAt, startupVars, nvmlVars,
                   schedVars, clockVars, sigVars, wg, task, faults>>

\* deferred mqttClient.Disconnect(250): waits at most 250 ms
Disconnect ==
    /\ pc = "disconnect"
    /\ pc' = "nvmlShutdown"
    /\ mqtt' = [mqtt EXCEPT !.conn = "closed"]
    /\ UNCHANGED <<cfg, harnessVars, fatalAt, startupVars, nvmlVars,
                   schedVars, clockVars, sigVars, wg, task, faults>>

\* deferred nvidia.Shutdown(): takes requestMutex, then main returns
NvmlShutdown ==
    /\ pc = "nvmlShutdown"
    /\ requestMutex = "free"
    /\ pc' = "exited"
    /\ UNCHANGED <<cfg, harnessVars, procVars, startupVars, nvmlVars,
                   schedVars, clockVars, sigVars, wg, task, faults>>

(***************************************************************************)
(* GetGPUMetrics and getGPUMetricsInternal                                 *)
(***************************************************************************)

\* how the library treats a call: it answers at once, late, or never
HwModes == {"fast", "slow", "hung"}

\* variant: getGPUMetricsInternal enters the library without the mutex
CallLock_NoMutex(d) ==
    /\ Alive
    /\ task[d].pc = "wait"
    /\ task[d].call = "lock"
    /\ \E mode \in HwModes :
          /\ mode # "fast" => faults < MaxFaults
          /\ faults' = IF mode = "fast" THEN faults ELSE faults + 1
          /\ inHw' = [dev |-> d, mode |-> mode, orphan |-> FALSE,
                      old |-> FALSE]
    /\ requestMutex' = "query"
    /\ task' = [task EXCEPT ![d].call = "hw"]
    /\ UNCHANGED <<cfg, harnessVars, procVars, pc, startupVars, orphans,
                   schedVars, clockVars, sigVars, wg>>

\* getGPUMetricsInternal of the running cycle takes requestMutex and enters
\* the library
CallLock(d) ==
    /\ Alive
    /\ task[d].pc = "wait"
    /\ task[d].call = "lock"
    /\ requestMutex = "free"
    /\ \E mode \in HwModes :
          /\ mode # "fast" => faults < MaxFaults
          /\ faults' = IF mode = "fast" THEN faults ELSE faults + 1
          /\ inHw' = [dev |-> d, mode |-> mode, orphan |-> FALSE,
                      old |-> FALSE]
    /\ requestMutex' = "query"
    /\ task' = [task EXCEPT ![d].call = "hw"]
    /\ UNCHANGED <<cfg, harnessVars, procVars, pc, startupVars, orphans,
                   schedVars, clockVars, sigVars, wg>>

\* a query abandoned by its task takes requestMutex and enters the library
OrphanLock(d) ==
    /\ Alive
    /\ orphans[d] > 0
    /\ requestMutex = "free"
    /\ \E mode \in HwModes :
          /\ mode # "fast" => faults < MaxFaults
          /\ faults' = IF mode = "fast" THEN faults ELSE faults + 1
          /\ inHw' = [dev |-> d, mode |-> mode, orphan |-> TRUE,
                      old |-> FALSE]
    /\ requestMutex' = "query"
    /\ orphans' = [orphans EXCEPT ![d] = @ - 1]
    /\ UNCHANGED <<cfg, harnessVars, procVars, pc, startupVars, schedVars,
                   clockVars, sigVars, wg, task>>

\* variant: one done channel is shared by the calls of a device, so the
\* result of an abandoned query reaches the task that waits now
LateResult_Delivered ==
    /\ task' = [task EXCEPT
                   ![inHw.dev].call = IF task[inHw.dev].pc = "wait"
                                      THEN "sent" ELSE @,
                   ![inHw.dev].done = IF task[inHw.dev].pc = "wait"
                                      THEN getGPUMetricsInternal(
                                             [i \in 1..5 |-> "SUCCESS"])
                                      ELSE @]
    /\ UNCHANGED faults

\* the result of an abandoned query is sent to the done channel of its own
\* GetGPUMetrics call, which has returned: the send fills the buffer of one
\* and nobody receives it
LateResult ==
    UNCHANGED <<task, faults>>

\* the library answers: getGPUMetricsInternal returns, requestMutex is
\* released by the deferred Unlock and the result is sent to the done
\* channel (buffer of one, so the send never blocks); nobody reads the
\* channel of an abandoned query
HwReturn ==
    /\ Alive
    /\ inHw.dev # 0
    /\ inHw.mode \in {"fast", "slow"}
    /\ requestMutex' = "free"
    /\ inHw' = NoCall
    /\ IF inHw.orphan
       THEN LateResult
       ELSE \E rets \in RetVectors :
               /\ faults + RetFaults(rets) <= MaxFaults
               /\ faults' = faults + RetFaults(rets)
               /\ task' = [task EXCEPT ![inHw.dev].call = "sent",
                              ![inHw.dev].rets = rets,
                              ![inHw.dev].done = getGPUMetricsInternal(rets)]
    /\ UNCHANGED <<cfg, harnessVars, procVars, pc, startupVars, orphans,
                   schedVars, clockVars, sigVars, wg>>

\* variant: GetGPUMetrics waits for the query without a timer
TimerExpired_Never(d) == FALSE

\* variant: the timer runs out a second early
TimerExpired_Early(d) == task[d].age >= QueryTimeout - 1

\* the timer of GetGPUMetrics: case <-time.After(10 * time.Second)
TimerExpired(d) == task[d].age >= QueryTimeout

\* case result := <-done: an error ends the task, a sample is published
TaskRecv(d) ==
    /\ Alive
    /\ task[d].pc = "wait"
    /\ task[d].call = "sent"
    /\ LET r == task[d].done IN
       IF r.err # "none"
       THEN /\ task' = [task EXCEPT ![d].pc = "done", ![d].call = "none",
                           ![d].done = NoResult, ![d].age = 0,
                           ![d].result = "error", ![d].err = r.err]
            /\ wg' = wg - 1
       ELSE /\ task' = [task EXCEPT ![d].pc = "publish", ![d].call = "none",
                           ![d].done = NoResult, ![d].age = 0,
                           ![d].result = "ok", ![d].sample = r.metrics]
            /\ wg' = wg
    /\ UNCHANGED <<cfg, harnessVars, procVars, pc, startupVars, nvmlVars,
                   schedVars, clockVars, sigVars, faults>>

\* case <-time.After(...): the task gives the query up; the query goroutine
\* lives on, waiting for requestMutex or inside the library
TaskTimeout(d) ==
    /\ Alive
    /\ task[d].pc = "wait"
    /\ TimerExpired(d)
    /\ task' = [task EXCEPT ![d].pc = "done", ![d].call = "none",
                   ![d].done = NoResult,
                   ![d].result = "timeout",
                   ![d].blocked = task[d].call]
    /\ wg' = wg - 1
    /\ orphans' = IF task[d].call = "lock"
                  THEN [orphans EXCEPT ![d] = Min(@ + 1, MaxOrphans)]
                  ELSE orphans
    /\ inHw' = IF task[d].call = "hw" THEN [inHw EXCEPT !.orphan = TRUE]
               ELSE inHw
    /\ UNCHANGED <<cfg, harnessVars, procVars, pc, startupVars, requestMutex,
                   schedVars, clockVars, sigVars, faults>>

(***************************************************************************)
(* publishMetrics                                                          *)
(***************************************************************************)

\* the payload published for a metric: the reading, or the zero value the
\* field kept when its NVML call was unsupported
Payload(d, m) == IF m \in task[d].sample THEN "reading" ELSE "zero"

\* the state messages of device d in the cycle
statePub(d) == {<<m, Payload(d, m)>> : m \in task[d].pubDone}

\* the message publishMetrics sends for metric m of device d
stateMessage(d, m) ==
    [topic   |-> publishStateTopic(deviceIDs[d], m),
     payload |-> Payload(d, m),
     retain  |-> cfg.MQTTRetain]

\* the metrics the loop of publishMetrics has still to visit
Remaining(d) == Metrics \ task[d].pubDone

\* the loop of publishMetrics runs to its end with every remaining publish
\* acknowledged at once; the task then calls wg.Done()
PublishRest(d) ==
    /\ Alive
    /\ task[d].pc = "publish"
    /\ task' = [task EXCEPT ![d].pc = "done", ![d].pubDone = Metrics]
    /\ wg' = wg - 1
    /\ UNCHANGED <<cfg, harnessVars, procVars, pc, startupVars, nvmlVars,
                   schedVars, clockVars, sigVars, faults>>

\* the loop of publishMetrics visits the metrics of before (any order of the
\* map), each acknowledged at once, and then publishes m, which the broker
\* refuses (the loop goes on) or does not answer (the task waits)
PublishUpTo(d) ==
    /\ Alive
    /\ task[d].pc = "publish"
    /\ faults < MaxFaults
    /\ faults' = faults + 1
    /\ \E m \in Remaining(d), refused \in BOOLEAN :
         \E before \in SUBSET (Remaining(d) \ {m}) :
            task' = [task EXCEPT
                       ![d].pubDone = @ \cup before \cup {m},
                       ![d].pubFailed = @ \/ refused,
                       ![d].pc = IF refused THEN "publish" ELSE "pubwait",
                       ![d].age = 0]
    /\ UNCHANGED <<cfg, harnessVars, procVars, pc, startupVars, nvmlVars,
                   schedVars, clockVars, sigVars, wg>>

\* token.WaitTimeout returns because the broker answered
PubReturn(d) ==
    /\ Alive
    /\ task[d].pc = "pubwait"
    /\ \E ok \in BOOLEAN :
          task' = [task EXCEPT ![d].pc = "publish", ![d].age = 0,
                      ![d].pubFailed = @ \/ ~ok]
    /\ UNCHANGED <<cfg, harnessVars, procVars, pc, startupVars, nvmlVars,
                   schedVars, clockVars, sigVars, wg, faults>>

\* token.WaitTimeout(5 * time.Second) ran out
PublishExpired(d) == task[d].age >= PublishTimeout

\* variant: a publish that times out ends publishMetrics
PubTimeout_Abort(d) ==
    /\ Alive
    /\ task[d].pc = "pubwait"
    /\ PublishExpired(d)
    /\ task' = [task EXCEPT ![d].pc = "done", ![d].age = 0,
                   ![d].pubFailed = TRUE]
    /\ wg' = wg - 1
    /\ UNCHANGED <<cfg, harnessVars, procVars, pc, startupVars, nvmlVars,
                   schedVars, clockVars, sigVars, faults>>

\* token.WaitTimeout returns false: logged, the loop goes on
PubTimeout(d) ==
    /\ Alive
    /\ task[d].pc = "pubwait"
    /\ PublishExpired(d)
    /\ task' = [task EXCEPT ![d].pc = "publish", ![d].age = 0,
                   ![d].pubFailed = TRUE]
    /\ UNCHANGED <<cfg, harnessVars, procVars, pc, startupVars, nvmlVars,
                   schedVars, clockVars, sigVars, wg, faults>>

(***************************************************************************)
(* Time                                                                    *)
(***************************************************************************)

\* a step of the program is ready: it is taken before the clock advances
Urgent ==
    \/ AtSelect /\ (tickC \/ ctxDone)
    \/ pc = "cycle" /\ WgWaitDone
    \/ /\ requestMutex = "free"
       /\ \E d \in Devices : \/ task[d].pc = "wait" /\ task[d].call = "lock"
                             \/ orphans[d] > 0
    \/ inHw.mode = "fast"
    \/ \E d \in Devices :
          \/ task[d].pc = "wait" /\ (task[d].call = "sent" \/ TimerExpired(d))
          \/ task[d].pc = "publish"
          \/ task[d].pc = "pubwait" /\ PublishExpired(d)

\* one second passes: the running timers age, the ticker counts down and
\* fires into ticker.C (a tick is dropped when the channel is full)
AdvanceTime ==
    /\ pc \in {"loop", "cycle"}
    /\ ~Urgent
    /\ task' = [d \in Devices |->
                  IF task[d].pc \in {"wait", "pubwait"}
                  THEN [task[d] EXCEPT !.age = @ + 1]
                  ELSE task[d]]
    /\ sinceLastMonitor' = Min(sinceLastMonitor + 1, SinceCap)
    /\ IF tickIn = 1
       THEN /\ tickIn' = cfg.PollingPeriod
            /\ tickC' = TRUE
       ELSE /\ tickIn' = tickIn - 1
            /\ tickC' = tickC
    /\ UNCHANGED <<cfg, harnessVars, procVars, pc, startupVars, nvmlVars,
                   monitoringMutex, isMonitoring, tickOutcome, skips,
                   sigVars, wg, faults>>

Next ==
    \/ NvmlInit
    \/ GetVersions
    \/ GetGPUDevices
    \/ setupMQTTClient
    \/ RegisterSensor
    \/ Signal
    \/ LoopTick
    \/ EndCycle
    \/ LoopShutdown
    \/ Disconnect
    \/ NvmlShutdown
    \/ \E d \in Devices : CallLock(d)
    \/ \E d \in Devices : OrphanLock(d)
    \/ HwReturn
    \/ \E d \in Devices : TaskRecv(d)
    \/ \E d \in Devices : TaskTimeout(d)
    \/ \E d \in Devices : PublishRest(d)
    \/ \E d \in Devices : PublishUpTo(d)
    \/ \E d \in Devices : PubReturn(d)
    \/ \E d \in Devices : PubTimeout(d)
    \/ AdvanceTime

Spec == Init /\ [][Next]_vars

(***************************************************************************)
(* The daemon under every setting of mqtt_lwt_enable and mqtt_retain, on a *)
(* connection that can be lost: the broker then publishes the will it was  *)
(* given, and the client, created with SetAutoReconnect(true), connects    *)
(* again and runs its OnConnect handler.                                   *)
(***************************************************************************)

\* the connection breaks without a DISCONNECT packet: the ConnectionLost
\* handler only logs, the broker publishes the registered will
ConnectionLost ==
    /\ Alive
    /\ mqtt.conn = "up"
    /\ faults < MaxFaults
    /\ faults' = faults + 1
    /\ mqtt' = IF mqtt.will = "none"
               THEN [mqtt EXCEPT !.conn = "lost"]
               ELSE [mqtt EXCEPT !.conn = "lost", !.avail = mqtt.will,
                                 !.availTopic = mqtt.willTopic]
    /\ UNCHANGED <<cfg, harnessVars, fatalAt, pc, startupVars, nvmlVars,
                   schedVars, clockVars, sigVars, wg, task>>

\* variant: the OnConnect handler runs for the first connection only
Reconnect_Silent ==
    /\ Alive
    /\ mqtt.conn = "lost"
    /\ mqtt' = [mqtt EXCEPT !.conn = "up"]
    /\ UNCHANGED <<cfg, harnessVars, fatalAt, pc, startupVars, nvmlVars,
                   schedVars, clockVars, sigVars, wg, task, faults>>

\* the automatic reconnection succeeds and the OnConnect handler runs again
Reconnect ==
    /\ Alive
    /\ mqtt.conn = "lost"
    /\ mqtt' = OnConnect([mqtt EXCEPT !.conn = "up"])
    /\ UNCHANGED <<cfg, harnessVars, fatalAt, pc, startupVars, nvmlVars,
                   schedVars, clockVars, sigVars, wg, task, faults>>

\* the shortest polling period with every setting of the two switches
ConfigInit ==
    /\ cfg \in [PollingPeriod : {1}, MQTTLWTEnable : BOOLEAN,
                MQTTRetain : BOOLEAN]
    /\ ProcessStart
    /\ HarnessIdle

ConfigNext ==
    \/ Next
    \/ ConnectionLost
    \/ Reconnect

ConfigSpec == ConfigInit /\ [][ConfigNext]_vars

(***************************************************************************)
(* The discovery manager called on its own: RegisterGPUSensors and         *)
(* RemoveGPUSensors in any order on any device, one call at a time.  The   *)
(* broker keeps the last payload delivered on each config topic; a publish *)
(* that was refused or not acknowledged in time may or may not have been   *)
(* delivered.                                                              *)
(***************************************************************************)

\* the last payload of config topic t on the broker
LastPayload(t) == IF t \in DOMAIN retained THEN retained[t] ELSE "none"

\* the broker after a publish of payload p to topic t
Deliver(t, p, delivered) ==
    IF delivered
    THEN [u \in DOMAIN retained \cup {t} |-> IF u = t THEN p ELSE retained[u]]
    ELSE retained

\* a caller enters RegisterGPUSensors(device d)
MgrCallRegister(d) ==
    /\ mgr.op = "idle"
    /\ mgr' = [op |-> "register", dev |-> d, idx |-> 1, clean |-> TRUE]
    /\ mgrHist' = [mgrHist EXCEPT ![d] = NoMgrHist]
    /\ UNCHANGED <<qry, daemonVars, faults, idVars, retained>>

\* one iteration of the loop of RegisterGPUSensors: registerSensor
\* publishes the record of sensor mgr.idx and waits for the token
MgrRegisterSensor ==
    /\ mgr.op = "register"
    /\ \E outcome \in PubOutcomes, delivered \in BOOLEAN :
          LET failed == registerSensorFails(outcome)
              d      == mgr.dev
              topic  == sensorConfig(d, Sensors[mgr.idx]).configTopic
              topics == mgrHist[d].regTopics \cup {topic}
          IN
          /\ outcome = "ack" => delivered
          /\ failed => faults < MaxFaults
          /\ faults' = IF failed THEN faults + 1 ELSE faults
          /\ retained' = Deliver(topic, "config", delivered)
          /\ IF RegisterReturns(failed, mgr.idx)
             THEN /\ mgr' = NoMgrCall
                  /\ mgrHist' = [mgrHist EXCEPT ![d] =
                        [@ EXCEPT !.reg = IF failed THEN "failed" ELSE "ok",
                                  !.regTopics = topics]]
             ELSE /\ mgr' = [mgr EXCEPT !.idx = @ + 1]
                  /\ mgrHist' = [mgrHist EXCEPT ![d].regTopics = topics]
    /\ UNCHANGED <<qry, daemonVars, idVars>>

\* a caller enters RemoveGPUSensors(device d)
MgrCallRemove(d) ==
    /\ mgr.op = "idle"
    /\ mgr' = [op |-> "remove", dev |-> d, idx |-> 1, clean |-> TRUE]
    /\ mgrHist' = [mgrHist EXCEPT ![d].rem = "none", ![d].remTopics = {}]
    /\ UNCHANGED <<qry, daemonVars, faults, idVars, retained>>

\* variant: RemoveGPUSensors gives up at the first publish that fails
RemoveReturns_OnError(failed, idx) == failed \/ idx = Len(RemoveSensors)

\* RemoveGPUSensors leaves its loop when the list of sensors is exhausted; a
\* failed publish is logged only
RemoveReturns(failed, idx) == idx = Len(RemoveSensors)

\* one iteration of the loop of RemoveGPUSensors: an empty payload is
\* published to the config topic of sensor mgr.idx and the token waited for
MgrRemoveSensor ==
    /\ mgr.op = "remove"
    /\ \E outcome \in PubOutcomes, delivered \in BOOLEAN :
          LET failed == outcome # "ack"
              d      == mgr.dev
              topic  == removeConfigTopic(deviceIDs[d], RemoveSensors[mgr.idx])
              topics == mgrHist[d].remTopics \cup {topic}
              clean  == mgr.clean /\ ~failed
          IN
          /\ outcome = "ack" => delivered
          /\ failed => faults < MaxFaults
          /\ faults' = IF failed THEN faults + 1 ELSE faults
          /\ retained' = Deliver(topic, "empty", delivered)
          /\ IF RemoveReturns(failed, mgr.idx)
             THEN /\ mgr' = NoMgrCall
                  /\ mgrHist' = [mgrHist EXCEPT ![d] =
                        [@ EXCEPT !.rem = IF clean THEN "clean" ELSE "unclean",
                                  !.remTopics = topics]]
             ELSE /\ mgr' = [mgr EXCEPT !.idx = @ + 1, !.clean = clean]
                  /\ mgrHist' = [mgrHist EXCEPT ![d].remTopics = topics]
    /\ UNCHANGED <<qry, daemonVars, idVars>>

ManagerNext ==
    \/ \E d \in Devices : MgrCallRegister(d)
    \/ MgrRegisterSensor
    \/ \E d \in Devices : MgrCallRemove(d)
    \/ MgrRemoveSensor

ManagerSpec == Init /\ [][ManagerNext]_vars

(***************************************************************************)
(* The identity functions called on their own, on devices as NVML may      *)
(* report them: two devices at the same bus location (of two machines),    *)
(* with any UUIDs.                                                         *)
(***************************************************************************)

\* the device of the comment of GetShortPCIBusID, bus 00000000:04:00.0, with
\* an NVML UUID
ExampleDevice ==
    [Index    |-> 0,
     PCIBusID |-> <<"0", "0", "0", "0", "0", "0", "0", "0", ":", "0", "4",
                    ":", "0", "0", ".", "0">>,
     UUID     |-> <<"G", "P", "U", "-", "1", "a", "2", "b", "3", "c", "4",
                    "d", "-", "5", "e", "6", "f", "-", "7", "a", "8", "b",
                    "-", "9", "c", "0", "d", "-", "1", "e", "2", "f", "3",
                    "a", "4", "b", "5", "c", "6", "d">>,
     Name     |-> HwDevice(1).Name,
     Memory   |-> HwDevice(1).Memory]

\* the hex digits the varied positions take (NVML prints bus ids in upper
\* case and UUIDs in lower case)
BusChars  == {<<"0", "4", "A", "F">>[i] : i \in 1..MaxBusChars}
UuidChars == {<<"b", "3", "c", "f">>[i] : i \in 1..MaxUuidChars}

\* bus ids domain:bus:00.0 with the domain of 8 digits of nvmlPciInfo.BusId
\* or the 4 digits of the legacy field, and any bus number
PciInputs ==
    {domain \o <<":">> \o bus \o <<":", "0", "0", ".", "0">> :
        domain \in {<<"0", "0", "0", "0", "0", "0", "0", "0">>,
                    <<"0", "0", "0", "0">>},
        bus \in [1..2 -> BusChars]}

\* UUIDs GPU-1a2xxx4d-5e6f-7a8b-9c0d-1e2f3a4b5c6d: digits 4 to 6 vary
UuidInputs ==
    {<<"G", "P", "U", "-", "1", "a", "2">> \o mid
       \o <<"4", "d", "-", "5", "e", "6", "f", "-", "7", "a", "8", "b",
            "-", "9", "c", "0", "d", "-", "1", "e", "2", "f", "3", "a",
            "4", "b", "5", "c", "6", "d">> :
        mid \in [1..3 -> UuidChars]}

\* nothing but the identity functions runs: the daemon and the discovery
\* manager stand still
OnlyIdentity ==
    /\ DaemonInit
    /\ cfg.PollingPeriod = 1
    /\ idOut = NoIds
    /\ mgr = NoMgrCall
    /\ mgrHist = [d \in Devices |-> NoMgrHist]
    /\ retained = [t \in {} |-> "none"]
    /\ qry = NoQuery

IdInit ==
    /\ OnlyIdentity
    /\ idDev \in [Index : {0}, PCIBusID : PciInputs, UUID : UuidInputs,
                   Name : {ExampleDevice.Name},
                   Memory : {ExampleDevice.Memory}]
    /\ idDev2 \in [Index : {1}, PCIBusID : {idDev.PCIBusID},
                    UUID : UuidInputs, Name : {ExampleDevice.Name},
                    Memory : {ExampleDevice.Memory}]
    /\ idHost = ExampleHost

\* GetDeviceID is called on both devices
CallGetDeviceID ==
    /\ idOut = NoIds
    /\ idOut' = [idOut EXCEPT !.done = {"id"},
                              !.id1 = GetDeviceID(idDev),
                              !.id2 = GetDeviceID(idDev2)]
    /\ UNCHANGED <<qry, daemonVars, faults, idInputs, mgrVars>>

IdNext == CallGetDeviceID

IdSpec == IdInit /\ [][IdNext]_vars

(***************************************************************************)
(* GetDeviceID called on two descriptions of the same hardware (same bus   *)
(* id and UUID) that differ in enumeration index, name and memory, and     *)
(* called again on the first.                                              *)
(***************************************************************************)

\* device names as NVML reports them, with the vendor prefix in several
\* letter cases and without it
NameInputs ==
    {<<"N", "V", "I", "D", "I", "A", " ", "A", "2">>,
     <<"N", "v", "i", "d", "i", "a", " ", "A", "2">>,
     <<"n", "v", "i", "d", "i", "a", " ", "A", "2">>,
     <<"A", "2">>}

\* memory sizes in MiB: 16 GiB, 15 GiB, 10.5 GiB and 11.5 GiB
MemInputs == {16 * MiBPerGiB, 15 * MiBPerGiB, 10 * MiBPerGiB + 512,
              11 * MiBPerGiB + 512}

HostInputs == {ExampleHost, <<"M", "Y", "-", "S", "E", "R", "V", "E", "R">>}

SameDeviceInit ==
    /\ OnlyIdentity
    /\ idDev \in [Index : {0}, PCIBusID : PciInputs, UUID : UuidInputs,
                   Name : {ExampleDevice.Name},
                   Memory : {ExampleDevice.Memory}]
    /\ idDev2 \in [Index : {0, 1}, PCIBusID : {idDev.PCIBusID},
                    UUID : {idDev.UUID}, Name : NameInputs,
                    Memory : MemInputs]
    /\ idHost \in HostInputs

\* GetDeviceID is called once more on the first device
CallGetDeviceIDAgain ==
    /\ idOut.done = {"id"}
    /\ idOut' = [idOut EXCEPT !.done = {"id", "again"},
                              !.again = GetDeviceID(idDev)]
    /\ UNCHANGED <<qry, daemonVars, faults, idInputs, mgrVars>>

SameDeviceNext == CallGetDeviceID \/ CallGetDeviceIDAgain

SameDeviceSpec == SameDeviceInit /\ [][SameDeviceNext]_vars

(***************************************************************************)
(* GetShortPCIBusID called on any short string of digits and colons, and   *)
(* on the bus ids of NVML.                                                 *)
(***************************************************************************)

\* the strings over an alphabet of at most n characters
Strings(alphabet, n) == UNION {[1..k -> alphabet] : k \in 0..n}

BusInit ==
    /\ OnlyIdentity
    /\ \E bus \in PciInputs \cup Strings({"0", "A", ":"}, MaxBusLen) :
          /\ idDev = [ExampleDevice EXCEPT !.PCIBusID = bus]
          /\ idDev2 = idDev
    /\ idHost = ExampleHost

CallGetShortPCIBusID ==
    /\ idOut = NoIds
    /\ idOut' = [idOut EXCEPT !.done = {"short"},
                              !.short = GetShortPCIBusID(idDev.PCIBusID)]
    /\ UNCHANGED <<qry, daemonVars, faults, idInputs, mgrVars>>

BusNext == CallGetShortPCIBusID

BusSpec == BusInit /\ [][BusNext]_vars

(***************************************************************************)
(* GetDeviceDisplayName called on devices of any name and memory size.     *)
(***************************************************************************)

NameInit ==
    /\ OnlyIdentity
    /\ idDev \in [Index : {0}, PCIBusID : PciInputs,
                   UUID : {ExampleDevice.UUID}, Name : NameInputs,
                   Memory : MemInputs]
    /\ idDev2 = idDev
    /\ idHost \in HostInputs

CallGetDeviceDisplayName ==
    /\ idOut = NoIds
    /\ idOut' = [idOut EXCEPT !.done = {"name"},
                              !.name = GetDeviceDisplayName(idDev, idHost)]
    /\ UNCHANGED <<qry, daemonVars, faults, idInputs, mgrVars>>

NameNext == CallGetDeviceDisplayName

NameSpec == NameInit /\ [][NameNext]_vars

(***************************************************************************)
(* One sample task on its own: getGPUMetricsInternal makes its NVML calls  *)
(* one after the other against a library whose five answers are chosen at  *)
(* the start, and the goroutine of monitorGPUs publishes or returns.       *)
(***************************************************************************)

QueryInit ==
    /\ DaemonInit
    /\ cfg.PollingPeriod = 1
    /\ idDev = HwDevice(1)
    /\ idDev2 = HwDevice(1)
    /\ idHost = ExampleHost
    /\ idOut = NoIds
    /\ mgr = NoMgrCall
    /\ mgrHist = [d \in Devices |-> NoMgrHist]
    /\ retained = [t \in {} |-> "none"]
    /\ \E rets \in RetVectors :
          qry = [NoQuery EXCEPT !.at = "calling", !.rets = rets]

\* variant: a failing call is passed over and the next call is made
QueryGoesOn_Always(i, ret) == TRUE

\* after call i getGPUMetricsInternal goes on to the next statement unless
\* the return makes it leave with an error
QueryGoesOn(i, ret) == ~CallFails(i, ret)

\* the next NVML call of getGPUMetricsInternal: a reading is stored on
\* SUCCESS, a failing return ends the function with the error of that call,
\* and after the last call the function returns the metrics
NvmlCall ==
    /\ qry.at = "calling"
    /\ LET i    == Len(qry.made) + 1
           ret  == qry.rets[i]
           read == IF ret = "SUCCESS"
                   THEN qry.out.metrics \cup {Sensors[i]}
                   ELSE qry.out.metrics
       IN  qry' = [qry EXCEPT
                     !.made = Append(@, QueryCalls[i]),
                     !.out = [err |-> IF QueryGoesOn(i, ret)
                                      THEN IF i = Len(QueryCalls)
                                           THEN "none" ELSE "empty"
                                      ELSE QueryCalls[i],
                              metrics |-> read],
                     !.at = IF QueryGoesOn(i, ret) /\ i < Len(QueryCalls)
                            THEN "calling" ELSE "returned"]
    /\ UNCHANGED <<daemonVars, faults, idVars, mgrVars>>

\* GetGPUMetrics takes the branch of time.After: the library has not
\* answered the calls in time, the zero GPUMetrics and a timeout error are
\* returned and the goroutine of the query is left behind
QueryTimesOut ==
    /\ qry.at = "calling"
    /\ qry' = [qry EXCEPT !.at = "returned",
                          !.out = [err |-> "timeout", metrics |-> {}]]
    /\ UNCHANGED <<daemonVars, faults, idVars, mgrVars>>

\* the goroutine of monitorGPUs after GetGPUMetrics: an error is logged and
\* the task returns, a sample goes to publishMetrics, which publishes every
\* key of its map
QueryTask ==
    /\ qry.at = "returned"
    /\ qry' = [qry EXCEPT !.at = "done",
                          !.published = IF qry.out.err # "none"
                                        THEN {} ELSE Metrics]
    /\ UNCHANGED <<daemonVars, faults, idVars, mgrVars>>

QueryNext ==
    \/ NvmlCall
    \/ QueryTimesOut
    \/ QueryTask

QuerySpec == QueryInit /\ [][QueryNext]_vars

TypeOK ==
    /\ pc \in {"nvmlInit", "versions", "enumerate", "connect", "register",
               "loop", "cycle", "disconnect", "nvmlShutdown", "exited",
               "fatal"}
    /\ requestMutex \in {"free", "main", "query"}
    /\ wg \in 0..NumDevices
    /\ faults \in 0..MaxFaults
    /\ \A d \in Devices : task[d].age \in 0..QueryTimeout
    /\ skips \in 0..MaxSkips
    /\ qry.at \in {"idle", "calling", "returned", "done"}
    /\ mqtt.conn \in {"none", "up", "lost", "closed"}
    /\ mqtt.will \in {"none", "offline"}
    /\ mqtt.avail \in {"none", "online", "offline"}
    /\ fatalAt \in {"none", "nvmlInit", "enumerate", "connect"}

(***************************************************************************)
(* Fairness: every goroutine that can take a step takes one, the clock     *)
(* keeps running and the library answers every call it has not hung on.    *)
(* The shutdown signal and the answers of the broker are not forced.       *)
(***************************************************************************)

MainStep ==
    \/ NvmlInit \/ GetVersions \/ GetGPUDevices \/ setupMQTTClient
    \/ RegisterSensor \/ LoopTick \/ EndCycle \/ LoopShutdown \/ Disconnect
    \/ NvmlShutdown

TaskStep(d) ==
    \/ CallLock(d) \/ OrphanLock(d) \/ TaskRecv(d) \/ TaskTimeout(d)
    \/ PublishRest(d) \/ PubTimeout(d)

FairSpec ==
    /\ Init /\ [][Next]_vars
    /\ WF_vars(MainStep)
    /\ \A d \in Devices : WF_vars(TaskStep(d))
    /\ WF_vars(HwReturn)
    /\ WF_vars(AdvanceTime)

(***************************************************************************)
(* Properties                                                              *)
(***************************************************************************)

\* the tasks of a cycle that have not finished
RunningTasks == {d \in Devices : task[d].pc \notin {"none", "done"}}

\* the start-up of run() is over: the ticker exists
LoopStarted == pc \in {"loop", "cycle", "disconnect", "nvmlShutdown", "exited"}

\* a step in which monitorGPUs starts a cycle
CycleStarts == pc = "loop" /\ pc' = "cycle"

\* a step in which the ticker fires
TickFires == AdvanceTime /\ tickIn = 1

\* C1: at most one sampling cycle is in progress.  Tasks run only inside the
\* call of monitorGPUs that launched them, a cycle starts only when no task
\* of an earlier cycle is running, and a tick fired during a cycle starts
\* no cycle, launches no task and leaves the cycle's tasks where they are.
C1_SingleCycle ==
    /\ [](RunningTasks # {} => (pc = "cycle" /\ isMonitoring /\ monitoringMutex))
    /\ [][CycleStarts => (RunningTasks = {} /\ ~isMonitoring /\ wg = 0)]_vars
    /\ [][(pc = "cycle" /\ TickFires) =>
             /\ pc' = "cycle"
             /\ wg' = wg
             /\ \A d \in Devices :
                   /\ task'[d].pc = task[d].pc
                   /\ task'[d].call = task[d].call
                   /\ task'[d].pubDone = task[d].pubDone]_vars

\* a tick is waiting in ticker.C while the cycle it fell into is running
C1_Witness == pc = "cycle" /\ tickC /\ RunningTasks # {}

\* C2 as claimed: a tick handled sooner than half the polling period after
\* the previous completion starts no cycle
C2_MinInterval ==
    [][(AtSelect /\ tickC /\ 2 * sinceLastMonitor < cfg.PollingPeriod)
          => ~CycleStarts]_vars

\* C3 as claimed: no task runs into its timeout while its query waits behind
\* the hung query of another device of the same cycle
C3_NoCrossDeviceDelay ==
    \A a, b \in Devices :
        a # b => ~(/\ inHw.dev = a
                   /\ inHw.mode = "hung"
                   /\ ~inHw.old
                   /\ task[b].result = "timeout"
                   /\ task[b].blocked = "lock")

\* C4: a task whose query does not return ends with the timeout when exactly
\* QueryTimeout seconds have passed on its timer, and it publishes nothing
C4_TimeoutAtDeadline ==
    \A d \in Devices :
        task[d].result = "timeout" =>
            /\ task[d].age = QueryTimeout
            /\ task[d].pc = "done"
            /\ task[d].pubDone = {}

\* the library hung on the query of a device and its task timed out
C4_Witness ==
    \E d \in Devices :
        /\ task[d].result = "timeout"
        /\ task[d].blocked = "hw"
        /\ inHw.dev = d
        /\ inHw.mode = "hung"

\* C5 as claimed: in a cycle started after a query was abandoned, no task
\* runs into its timeout because that query has still not returned
C5_NextCycleIndependent ==
    \A d \in Devices :
        ~(/\ inHw.old
          /\ inHw.mode = "hung"
          /\ task[d].result = "timeout"
          /\ task[d].blocked = "lock")

\* C6 as claimed: with the signal received and the cycle in flight, the
\* loop can leave at once
C6_NoWaitOnShutdown ==
    (ctxDone /\ pc = "cycle" /\ RunningTasks # {}) => ENABLED LoopShutdown

\* C6 as amended: the loop leaves, and the process goes on to exit, only
\* when every task of the cycle in flight has finished
C6_ShutdownAfterJoin ==
    pc \in {"disconnect", "nvmlShutdown", "exited"} => RunningTasks = {}

\* the signal arrived during a cycle and the loop has left
C6_Witness ==
    /\ sigAt = "cycle"
    /\ pc \in {"disconnect", "nvmlShutdown", "exited"}
    /\ \E d \in Devices : task[d].pc = "done"

\* C7 as claimed: after the shutdown signal the process terminates
C7_EventuallyExits == ctxDone ~> (pc = "exited")

\* C8 as claimed: a metric whose NVML call was unsupported gets no state
\* message in that cycle
C8_UnsupportedOmitted ==
    \A d \in Devices :
        \A i \in 1..5 :
            (task[d].result = "ok" /\ task[d].rets[i] = "NOT_SUPPORTED")
                => Sensors[i] \notin task[d].pubDone

\* C9: a device whose memory-info call failed gets no sample and no state
\* message in that cycle, and another device whose sample succeeded has all
\* its metrics published once its task is done
C9_MemoryFailureFailsSample ==
    \A d \in Devices :
        (task[d].rets # NoRets /\ task[d].rets[3] # "SUCCESS") =>
            /\ task[d].result # "ok"
            /\ task[d].pubDone = {}
            /\ \A b \in gpus \ {d} :
                  (task[b].pc = "done" /\ task[b].result = "ok")
                      => task[b].pubDone = Metrics

\* one device failed on memory info, the other published all its metrics
C9_Witness ==
    \E d, b \in Devices :
        /\ d # b
        /\ task[d].rets[3] # "SUCCESS"
        /\ task[d].pc = "done"
        /\ task[d].result = "error"
        /\ task[d].err = "memory"
        /\ task[b].pc = "done"
        /\ task[b].result = "ok"
        /\ task[b].pubDone = Metrics

\* C10 as claimed: when registration is over, a discovery record has been
\* published for each of the 5 sensors of every device
C10_AllSensorsAttempted ==
    LoopStarted => \A d \in gpus : \A k \in Metrics : <<d, k>> \in configPub

\* C11: for every device and every metric, the state_topic of the discovery
\* record published at registration is the topic the sampling loop publishes
\* that metric of that device to, and the topic of no other metric or device
C11_StateTopicRoundTrip ==
    \A d1 \in gpus, d2 \in gpus : \A k \in Metrics, m \in Metrics :
        (<<d1, k>> \in configPub /\ m \in task[d2].pubDone)
        => ( (sensorConfig(d1, k).state_topic = stateMessage(d2, m).topic)
             <=> (d1 = d2 /\ k = m) )

\* a metric is published in a cycle for a device whose record of that metric
\* was published at registration
C11_Witness ==
    \E d \in gpus : \E k \in task[d].pubDone : <<d, k>> \in configPub

\* C12: when the library cannot be initialised, or the enumeration fails or
\* finds no device, the process is ended by log.Fatal at start-up: nothing
\* runs after it (no retry), no connection to the broker was opened, no
\* discovery, availability or state message was published and the ticker
\* was not started; and start-up never goes past the enumeration without a
\* device
C12_FatalStartup ==
    /\ pc \notin {"nvmlInit", "versions", "enumerate", "fatal"} => gpus # {}
    /\ (pc = "fatal") <=> (fatalAt # "none")
    /\ pc = "fatal" => ~ENABLED Next
    /\ fatalAt \in {"nvmlInit", "enumerate"} =>
          /\ gpus = {}
          /\ mqtt = NoConnection
          /\ configPub = {}
          /\ \A d \in Devices : task[d] = IdleTask
          /\ tickIn = 0 /\ ~tickC
          /\ tickOutcome = "none"

\* the enumeration failed or found no device and the process was ended
C12_Witness == pc = "fatal" /\ fatalAt = "enumerate"

\* a task of the cycle has ended with a failure: the query returned an error
\* or timed out, or a publish was refused or timed out
TaskFailed(d) ==
    /\ task[d].pc = "done"
    /\ task[d].result \in {"error", "timeout"} \/ task[d].pubFailed

\* C13: a cycle that starts launches one task for each enumerated GPU and for
\* nothing else, all in the same step; while a task runs the process is in
\* the cycle and the task's own timer is within its limit; the step in which
\* a task ends with a failure changes no other task; and the cycle ends only
\* when the task of every GPU has come to its own end
C13_OneTaskPerDevice ==
    [][ /\ CycleStarts =>
              /\ wg' = Cardinality(gpus)
              /\ \A d \in Devices :
                    task'[d] = IF d \in gpus THEN LaunchedTask ELSE IdleTask
        /\ \A d \in RunningTasks' :
              /\ d \in gpus /\ pc' = "cycle"
              /\ task'[d].pc = "wait" => task'[d].age <= QueryTimeout
              /\ task'[d].pc = "pubwait" => task'[d].age <= PublishTimeout
        /\ \A d \in RunningTasks :
              (TaskFailed(d))' =>
                  \A e \in Devices \ {d} : task'[e] = task[e]
        /\ (pc = "cycle" /\ pc' # "cycle") =>
              /\ pc' = "loop"
              /\ \A d \in gpus :
                    /\ task[d].pc = "done"
                    /\ task[d].result \in {"ok", "error", "timeout"}
                    /\ task[d].result = "ok" => task[d].pubDone = Metrics
      ]_vars

\* a cycle has ended in which the task of one GPU failed and the task of
\* another GPU published its sample
C13_Witness ==
    /\ pc = "loop" /\ tickOutcome = "started"
    /\ \E d \in gpus, e \in gpus :
          /\ task[d].result \in {"error", "timeout"}
          /\ task[e].result = "ok" /\ task[e].pubDone = Metrics

\* C14: for a device whose sample succeeded, publishMetrics visits every
\* metric whatever the earlier publishes returned: after a refused or
\* timed-out publish the loop is still running and can go on (a publish that
\* is waited for is given up after PublishTimeout), and the task ends only
\* with a publish attempted for every metric
C14_AllMetricsAttempted ==
    \A d \in gpus :
        task[d].result = "ok" =>
            /\ task[d].pc \in {"publish", "pubwait", "done"}
            /\ task[d].pc = "publish" => ENABLED PublishRest(d)
            /\ task[d].pc = "pubwait" =>
                  /\ task[d].age <= PublishTimeout
                  /\ PublishExpired(d) => ENABLED PubTimeout(d)
            /\ task[d].pc = "done" => task[d].pubDone = Metrics

\* a task has ended whose sample succeeded and one of whose publishes failed
C14_Witness ==
    \E d \in gpus :
        /\ task[d].pc = "done" /\ task[d].result = "ok"
        /\ task[d].pubFailed
        /\ task[d].pubDone = Metrics

\* the queries inside the hardware library: those of running tasks and the
\* one a task has abandoned there
QueriesInside ==
    Cardinality({d \in Devices : task[d].call = "hw"})
    + (IF inHw.dev # 0 /\ inHw.orphan THEN 1 ELSE 0)

\* a call of the main goroutine into the library: Init, the version
\* queries, the enumeration, Shutdown
MainNvmlCall ==
    \/ pc = "nvmlInit" /\ pc' # pc
    \/ pc = "versions" /\ pc' # pc
    \/ pc = "enumerate" /\ pc' # pc
    \/ pc = "nvmlShutdown" /\ pc' # pc

\* C15: calls into the hardware library exclude one another: at most one
\* metric query is inside the library, it is the holder of requestMutex, and
\* the main goroutine calls Init, the version queries, the enumeration or
\* Shutdown only when no query is inside; queries of concurrent tasks so run
\* one after another
C15_NvmlCallsExclusive ==
    [][ /\ QueriesInside' <= 1
        /\ (QueriesInside' = 1) <=> (requestMutex' = "query")
        /\ (inHw'.dev # 0) <=> (requestMutex' = "query")
        /\ MainNvmlCall => (QueriesInside = 0 /\ requestMutex = "free")
      ]_vars

\* the query of one task is inside the library while the query of another
\* task of the cycle waits for requestMutex
C15_Witness ==
    \E d \in gpus, e \in gpus :
        /\ task[d].call = "hw" /\ inHw.dev = d
        /\ task[e].call = "lock"
        /\ requestMutex = "query"

\* the registration loop of run() is over: RegisterGPUSensors has returned
\* for every GPU, with an error or after the record of every sensor
RegistrationOver ==
    /\ LoopStarted
    /\ regDev = 0
    /\ \A d \in gpus :
          /\ \E k \in Metrics : <<d, k>> \in configPub
          /\ d \in regFailed \/ \A k \in Metrics : <<d, k>> \in configPub

\* the ticker has not been created and no task has run
TickerNotStarted ==
    /\ tickIn = 0 /\ ~tickC /\ tickOutcome = "none"
    /\ \A d \in Devices : task[d] = IdleTask

\* C16: every registration attempt is made, and has returned, while the
\* ticker does not exist yet; once the ticker exists or a task has run (and
\* so before any state message) the registration of every GPU is over
C16_RegistrationBeforeTicker ==
    [][ /\ (configPub' # configPub \/ regFailed' # regFailed) =>
              (pc = "register" /\ TickerNotStarted)
        /\ (~TickerNotStarted)' => RegistrationOver'
        /\ (pc = "register" /\ pc' # "register") =>
              (TickerNotStarted /\ RegistrationOver' /\ tickIn' > 0)
      ]_vars

\* a state message has been published after a registration in which the
\* records of one GPU were published and the registration of another failed
C16_Witness ==
    /\ \E d \in gpus : task[d].pubDone # {}
    /\ \E d \in gpus : \A k \in Metrics : <<d, k>> \in configPub
    /\ regFailed # {}

\* the sensor keys of device d whose discovery record was published
RegisteredKeys(d) == {k \in Metrics : <<d, k>> \in configPub}

\* C17 as claimed: the registration of a device publishes one discovery
\* record for each of the 5 sensor keys, each to a config topic of its own,
\* and these keys are the keys of RemoveGPUSensors and of publishMetrics
C17_OneRecordPerKey ==
    /\ Len(Sensors) = 5 /\ Cardinality(SeqRange(Sensors)) = 5
    /\ SeqRange(Sensors) = SeqRange(RemoveSensors)
    /\ SeqRange(Sensors) = Metrics
    /\ \A d1 \in Devices, d2 \in Devices : \A k1 \in Metrics, k2 \in Metrics :
          (sensorConfig(d1, k1).configTopic = sensorConfig(d2, k2).configTopic)
          => (d1 = d2 /\ k1 = k2)
    /\ LoopStarted => \A d \in gpus : RegisteredKeys(d) = SeqRange(Sensors)

\* the config topics RegisterGPUSensors publishes to when no publish fails
RegisterTopics(d) == {sensorConfig(d, k).configTopic : k \in SeqRange(Sensors)}

\* C18: RemoveGPUSensors publishes to the config topics of RegisterGPUSensors
\* for the device (no topic that registration does not use, and every topic
\* of a registration, which are all of them when the registration
\* succeeded), to all 5 of them also when a publish failed, and after a
\* successful registration followed by a removal whose publishes were all
\* acknowledged the last payload of each of these topics is empty
C18_RemoveRetractsRegister ==
    \A d \in Devices :
        LET h == mgrHist[d] IN
        /\ h.remTopics \subseteq RegisterTopics(d)
        /\ h.regTopics \subseteq RegisterTopics(d)
        /\ h.reg = "ok" => h.regTopics = RegisterTopics(d)
        /\ h.rem \in {"clean", "unclean"} =>
              /\ h.remTopics = RegisterTopics(d)
              /\ Cardinality(h.remTopics) = 5
              /\ h.regTopics \subseteq h.remTopics
        /\ (h.reg = "ok" /\ h.rem = "clean") =>
              \A t \in h.regTopics : LastPayload(t) = "empty"

\* the sensors of one device were registered and then removed without a
\* failure, and a removal for another device went through all 5 topics
\* although one of its publishes failed
C18_Witness ==
    \E d \in Devices, e \in Devices :
        /\ mgrHist[d].reg = "ok" /\ mgrHist[d].rem = "clean"
        /\ \A t \in RegisterTopics(d) : LastPayload(t) = "empty"
        /\ mgrHist[e].rem = "unclean"
        /\ Cardinality(mgrHist[e].remTopics) = 5

\* C19 as claimed: two devices at the same bus location whose UUIDs differ
\* get different device ids
C19_DistinctUuidsDistinctIds ==
    (/\ idOut # NoIds
     /\ idDev.PCIBusID = idDev2.PCIBusID
     /\ idDev.UUID # idDev2.UUID)
    => idOut.id1 # idOut.id2

\* the characters 0-9, a-f and A-F
HexChars ==
    {"0", "1", "2", "3", "4", "5", "6", "7", "8", "9", "a", "b", "c", "d",
     "e", "f", "A", "B", "C", "D", "E", "F"}

\* the id of the example: 00_04_00_0_ and then gpu1a2b3
ExampleId ==
    <<"0", "0", "_", "0", "4", "_", "0", "0", "_", "0", "_", "g", "p", "u",
      "1", "a", "2", "b", "3">>

\* the id of the example as first claimed: 00_04_00_0_ and then 1a2b3c4d
ExampleIdClaimed ==
    <<"0", "0", "_", "0", "4", "_", "0", "0", "_", "0", "_", "1", "a", "2",
      "b", "3", "c", "4", "d">>

C21_IdDependsOnBusAndUuid ==
    /\ "id" \in idOut.done =>
          /\ (idDev.PCIBusID = idDev2.PCIBusID /\ idDev.UUID = idDev2.UUID)
                => idOut.id1 = idOut.id2
          /\ \A i \in 1..Len(idOut.id1) :
                /\ idOut.id1[i] \notin {":", "."}
                /\ \A j \in 1..26 : idOut.id1[i] # UpperChars[j]
    /\ "again" \in idOut.done => idOut.again = idOut.id1

\* GetDeviceID has returned, twice for the first device, and the second
\* device has another index, name and memory and an upper-case bus number
C21_Witness ==
    /\ idOut.done = {"id", "again"}
    /\ idDev2.Index # idDev.Index
    /\ idDev2.Name # idDev.Name
    /\ idDev2.Memory # idDev.Memory
    /\ \E i \in 1..Len(idDev.PCIBusID) : idDev.PCIBusID[i] = "A"

\* the positions of the colons of a string
Colons(s) == {i \in 1..Len(s) : s[i] = ":"}

\* C22: for a bus id with at least 3 segments (2 colons or more),
\* GetShortPCIBusID returns exactly 3 segments: the first segment of the
\* input, cut to its last 2 characters when it is longer, and the second and
\* third segments of the input as they are
C22_ShortBusIdThreeSegments ==
    ("short" \in idOut.done /\ Cardinality(Colons(idDev.PCIBusID)) >= 2) =>
        LET in  == idDev.PCIBusID
            out == idOut.short
            c1  == CHOOSE i \in Colons(in) : \A j \in Colons(in) : i <= j
            c2  == CHOOSE i \in Colons(in) \ {c1} :
                       \A j \in Colons(in) \ {c1} : i <= j
            c3  == IF Cardinality(Colons(in)) = 2 THEN Len(in) + 1
                   ELSE CHOOSE i \in Colons(in) \ {c1, c2} :
                            \A j \in Colons(in) \ {c1, c2} : i <= j
            n1  == IF c1 - 1 > 2 THEN 2 ELSE c1 - 1
        IN  /\ Cardinality(Colons(out)) = 2
            /\ Len(out) = n1 + 1 + (c2 - c1 - 1) + 1 + (c3 - c2 - 1)
            /\ SubSeq(out, 1, n1) = SubSeq(in, c1 - n1, c1 - 1)
            /\ out[n1 + 1] = ":"
            /\ SubSeq(out, n1 + 2, n1 + c2 - c1) = SubSeq(in, c1 + 1, c2 - 1)
            /\ out[n1 + c2 - c1 + 1] = ":"
            /\ SubSeq(out, n1 + c2 - c1 + 2, Len(out))
                  = SubSeq(in, c2 + 1, c3 - 1)

\* GetShortPCIBusID has returned for a bus id of more than 3 segments whose
\* first segment has more than 2 characters
C22_Witness ==
    /\ "short" \in idOut.done
    /\ Cardinality(Colons(idDev.PCIBusID)) >= 3
    /\ \A i \in 1..3 : idDev.PCIBusID[i] # ":"
    /\ idOut.short # idDev.PCIBusID

\* C23 as claimed: the display name is the hostname, the short bus id,
\* " - NVIDIA ", the model and the memory in whole GB, where the model is the
\* device name without its leading vendor prefix, in whatever letter case
\* the prefix is written
C23_VendorOnce ==
    "name" \in idOut.done =>
        LET model == IF HasPrefix(ToUpper(idDev.Name), VendorPrefix)
                     THEN SubSeq(idDev.Name, Len(VendorPrefix) + 1,
                                 Len(idDev.Name))
                     ELSE idDev.Name
        IN  idOut.name =
                idHost \o <<" ">> \o GetShortPCIBusID(idDev.PCIBusID)
                \o <<" ", "-", " ", "N", "V", "I", "D", "I", "A", " ">>
                \o model \o <<" ">>
                \o FormatInt(WholeGB(idDev.Memory)) \o <<"G", "B">>

\* the discovery records published so far
PublishedConfigs == {sensorConfig(r[1], r[2]) : r \in configPub}

\* the client has connected at least once
EverConnected == mqtt.conn # "none"

\* C24: with availability tracking enabled every published discovery record
\* carries the availability topic with the payloads "online" and "offline",
\* and once the client has connected that topic is the topic of the
\* registered will ("offline") and of every availability message; with it
\* disabled no record carries an availability field, no will is registered
\* and nothing is published on an availability topic
C24_AvailabilityWiring ==
    IF cfg.MQTTLWTEnable
    THEN /\ \A c \in PublishedConfigs :
               /\ c.availability_topic # <<>>
               /\ c.payload_available = "online"
               /\ c.payload_not_available = "offline"
               /\ c.availability_topic = mqtt.willTopic
               /\ c.availability_topic = mqtt.availTopic
         /\ EverConnected =>
               /\ mqtt.will = "offline"
               /\ mqtt.willTopic = mqtt.availTopic
               /\ mqtt.avail \in {"online", "offline"}
    ELSE /\ \A c \in PublishedConfigs :
               /\ c.availability_topic = <<>>
               /\ c.payload_available = ""
               /\ c.payload_not_available = ""
         /\ mqtt.will = "none" /\ mqtt.willTopic = <<>>
         /\ mqtt.avail = "none" /\ mqtt.availTopic = <<>>

\* tracking is enabled, records of every GPU are published, the will is
\* registered and "online" is the last availability message
C24_Witness ==
    /\ cfg.MQTTLWTEnable
    /\ \A d \in Devices : \E r \in configPub : r[1] = d
    /\ mqtt.conn = "up" /\ mqtt.will = "offline" /\ mqtt.avail = "online"
    /\ pc = "cycle"

\* tracking is disabled, the daemon has registered its sensors and runs a
\* cycle
C24_DisabledReached ==
    /\ ~cfg.MQTTLWTEnable
    /\ configPub # {}
    /\ mqtt.conn = "up" /\ pc = "cycle"

\* C25: with availability tracking enabled, once the client has connected
\* the last message on the availability topic tells the state of the
\* connection: "online" while the client is connected (the first time or
\* again), "offline", published by the broker as the will, while the
\* connection is lost
C25_AvailabilityFollowsConnection ==
    cfg.MQTTLWTEnable =>
        /\ mqtt.conn = "up" => mqtt.avail = "online"
        /\ mqtt.conn = "lost" => mqtt.avail = "offline"
        /\ mqtt.conn \in {"up", "lost"} => mqtt.availTopic = onConnectTopic

\* every connection and every loss changes the availability message: a
\* step that connects publishes "online", a step that loses the connection
\* delivers "offline"
C25_EveryConnectPublishes ==
    [][cfg.MQTTLWTEnable =>
         /\ (mqtt.conn # "up" /\ mqtt'.conn = "up") => mqtt'.avail = "online"
         /\ (mqtt.conn = "up" /\ mqtt'.conn = "lost")
               => mqtt'.avail = "offline"]_vars

\* the connection was lost, "offline" was delivered, and the client is
\* connected again with "online" as the last availability message
C25_Witness ==
    /\ cfg.MQTTLWTEnable
    /\ mqtt.conn = "up" /\ mqtt.avail = "online"
    /\ faults > 0
    /\ pc = "loop" /\ regFailed = {} /\ tickOutcome = "none"

\* the state messages published so far in the cycle
PublishedStates ==
    UNION {{stateMessage(d, m) : m \in task[d].pubDone} : d \in Devices}

\* C26 as claimed: every discovery record and every state message is
\* published retained, whatever the configuration
C26_AlwaysRetained ==
    /\ \A c \in PublishedConfigs : c.retain
    /\ \A s \in PublishedStates : s.retain

\* C26: every discovery record and every state message is published with
\* the retain flag of the configuration, mqtt_retain: retained with the
\* default (true), not retained when the switch is off
C26_RetainAsConfigured ==
    /\ \A c \in PublishedConfigs : c.retain = cfg.MQTTRetain
    /\ \A s \in PublishedStates : s.retain = cfg.MQTTRetain

\* mqtt_retain is off, and discovery records and state messages of every
\* GPU were published
C26_Witness ==
    /\ ~cfg.MQTTRetain
    /\ \A d \in Devices : /\ \E r \in configPub : r[1] = d
                           /\ task[d].pubDone # {}

\* a tick is taken from ticker.C by the loop
TickHandled == AtSelect /\ tickC /\ ~tickC'

\* under the fairness of FairSpec a cycle starts after every skipped tick,
\* unless the shutdown signal comes first
SkipThenCycle == (skips > 0) ~> (skips = 0 \/ ctxDone)

\* C27: a skipped tick is not terminal: never more than two ticks in a row
\* are skipped, and after a skipped tick the loop is back at its select
\* with the ticker running, the in-progress flag clear and the mutex free,
\* so the tick that comes half a period after the last completion starts a
\* cycle
C27_SkipNotTerminal ==
    /\ skips <= 2
    /\ (pc = "loop" /\ skips > 0) =>
           /\ ~isMonitoring
           /\ ~monitoringMutex
           /\ tickIn \in 1..cfg.PollingPeriod
    /\ (pc = "loop" /\ skips > 0 /\ tickC /\ ~TooSoon) =>
           ENABLED (LoopTick /\ CycleStarts)

\* a tick was skipped, and the next tick is in ticker.C and passes both guards
C27_Witness ==
    /\ pc = "loop" /\ skips > 0 /\ ~ctxDone
    /\ tickC /\ ~TooSoon /\ ~StillMonitoring

\* C28: a tick rejected by a guard changes nothing: the in-progress flag,
\* the completion time and the mutex keep their values, the loop stays at
\* its select, no task is launched, no query enters the library and no
\* message is published
C28_RejectedTickNoEffect ==
    [][(TickHandled /\ (StillMonitoring \/ TooSoon)) =>
          /\ UNCHANGED <<isMonitoring, sinceLastMonitor, monitoringMutex>>
          /\ UNCHANGED <<pc, wg, task>>
          /\ UNCHANGED <<requestMutex, inHw, orphans>>
          /\ UNCHANGED <<configPub, mqtt>>]_vars

\* the tick that was waiting when a cycle ended has been rejected as too
\* soon, and the loop waits for the next one
C28_Witness ==
    /\ pc = "loop" /\ tickOutcome = "skipTooSoon" /\ ~tickC
    /\ ~isMonitoring /\ sinceLastMonitor = 0 /\ wg = 0
    /\ \A d \in Devices : task[d].pc = "done"

\* C29: the in-progress flag is cleared only when every task of the cycle
\* has called wg.Done(), in the step that records the completion time, with
\* the mutex held until then; and a tick is only checked against the guards
\* while the mutex is free, when the flag is clear exactly if no cycle runs
C29_LeaveSamplingAtomically ==
    [][/\ (isMonitoring /\ ~isMonitoring') =>
             /\ wg = 0
             /\ \A d \in gpus : task[d].pc = "done"
             /\ monitoringMutex /\ ~monitoringMutex'
             /\ sinceLastMonitor' = 0
             /\ pc = "cycle" /\ pc' = "loop"
       /\ TickHandled => (~monitoringMutex /\ ~isMonitoring)
       /\ (isMonitoring' <=> monitoringMutex')
       /\ (isMonitoring' <=> pc' = "cycle")]_vars

\* a cycle that took time has just ended: every task is done, the flag is
\* clear and the completion time is fresh
C29_Witness ==
    /\ pc = "loop" /\ tickOutcome = "started"
    /\ ~isMonitoring /\ ~monitoringMutex /\ sinceLastMonitor = 0
    /\ \A d \in Devices : task[d].pc = "done"
    /\ \E d \in Devices : task[d].result = "timeout"

\* the tasks of the cycle that have not called wg.Done() yet
Unfinished == {d \in gpus : task[d].pc # "done"}

\* under the fairness of FairSpec every cycle ends
CycleReturnsToIdle == (pc = "cycle") ~> (pc = "loop")

LateReturn == inHw.dev # 0 /\ inHw.orphan /\ inHw' = NoCall

\* C31: the result of a query that returns after its task timed out is
\* discarded.  The step in which it returns changes no task, neither of
\* the cycle that launched the query nor of a later one: nothing is
\* received, published or counted in the WaitGroup.  The abandoned call
\* ends in that step: it releases requestMutex and leaves nothing behind
\* that waits for a receiver
C31_LateResultDiscarded ==
    [][LateReturn =>
          /\ UNCHANGED <<task, wg, pc>>
          /\ UNCHANGED <<configPub, mqtt, orphans>>
          /\ requestMutex = "query" /\ requestMutex' = "free"]_vars

\* the query a task gave up inside the library has returned since, and the
\* task has published nothing
C31_Witness ==
    /\ \E d \in Devices :
          /\ task[d].result = "timeout" /\ task[d].blocked = "hw"
          /\ task[d].pubDone = {}
    /\ inHw = NoCall /\ requestMutex = "free"
    /\ \A d \in Devices : orphans[d] = 0

\* the task of device d has published a state message in this cycle
HasPublished(d) == task[d].pubDone # {}

\* C32: in the task of a device the query comes before the state messages.
\* A message is published only by a task that has received the result of
\* its query without error; the values it publishes are the readings of
\* that result and stay the same until the task ends; and no query of the
\* cycle is running for the device while or after its messages go out
C32_QueryBeforePublish ==
    [][\A d \in Devices :
          /\ task'[d].pubDone # task[d].pubDone =>
                \/ task'[d].pubDone = {}
                \/ /\ task[d].pc = "publish"
                   /\ task[d].result = "ok"
                   /\ task[d].call = "none"
          /\ HasPublished(d)' =>
                /\ task'[d].result = "ok"
                /\ task'[d].sample =
                      getGPUMetricsInternal(task'[d].rets).metrics
                /\ ~(inHw'.dev = d /\ ~inHw'.orphan)
          /\ (HasPublished(d) /\ HasPublished(d)') =>
                /\ task'[d].sample = task[d].sample
                /\ task'[d].rets = task[d].rets]_vars

\* a task is done with all five messages out, from a query in which one
\* call was unsupported
C32_Witness ==
    \E d \in Devices :
        /\ task[d].pc = "done" /\ task[d].result = "ok"
        /\ task[d].pubDone = Metrics
        /\ \E i \in 1..5 : task[d].rets[i] = "NOT_SUPPORTED"
        /\ task[d].sample # Metrics

OptionalCalls == {i \in 1..5 : QueryCalls[i] # "memory"}

\* the sample fails as the claim says: memory info did not succeed, or an
\* optional call returned an error other than "unsupported"
SampleFails(rets) ==
    \/ \E i \in 1..5 : QueryCalls[i] = "memory" /\ rets[i] # "SUCCESS"
    \/ \E i \in OptionalCalls : rets[i] = "ERROR"

\* GetGPUMetrics returned an error: there is no sample
NoSample == qry.out.err # "none"

\* GetGPUMetrics gave the query up
TimedOut == qry.out.err = "timeout"

\* C34 as claimed: the sample fails exactly when memory info fails or
\* another call returns an error other than "unsupported", and a failed
\* sample publishes nothing
C34_FailsExactlyOnQueryError ==
    /\ qry.at \in {"returned", "done"} =>
          (NoSample <=> SampleFails(qry.rets))
    /\ qry.at = "done" =>
          qry.published = IF SampleFails(qry.rets) THEN {} ELSE Metrics

\* C34: the sample of a device fails exactly when memory info fails, when
\* another call returns an error other than "unsupported", or when
\* GetGPUMetrics runs into its timeout.  The calls are made in the order
\* power, performance state, memory, utilization, temperature; a failing
\* call is the last one made and names the error; without failure and
\* timeout all five are made; and a failed sample publishes nothing, while
\* a sample publishes all five metrics
C34_SampleFailsAsAWhole ==
    /\ qry.made = SubSeq(QueryCalls, 1, Len(qry.made))
    /\ \A j \in 1..(Len(qry.made) - 1) : ~CallFails(j, qry.rets[j])
    /\ qry.at \in {"returned", "done"} =>
          /\ NoSample <=> (TimedOut \/ SampleFails(qry.rets))
          /\ ~TimedOut =>
                /\ qry.out = getGPUMetricsInternal(qry.rets)
                /\ IF SampleFails(qry.rets)
                   THEN /\ qry.out.err = qry.made[Len(qry.made)]
                        /\ CallFails(Len(qry.made),
                                     qry.rets[Len(qry.made)])
                   ELSE qry.made = QueryCalls
    /\ qry.at = "done" =>
          qry.published = IF NoSample THEN {} ELSE Metrics

\* the power call was unsupported, memory info failed, and the task ended
\* after three calls without a state message, though the later calls
\* would have succeeded
C34_FirstFailureReached ==
    /\ qry.at = "done"
    /\ qry.rets = <<"NOT_SUPPORTED", "SUCCESS", "NOT_SUPPORTED", "SUCCESS",
                    "ERROR">>
    /\ qry.made = <<"power", "perf", "memory">>
    /\ qry.out.err = "memory"
    /\ qry.published = {}

\* every call would have succeeded, but GetGPUMetrics timed out after the
\* second one: the task ended without a sample and without a state message
C34_Witness ==
    /\ qry.at = "done"
    /\ \A i \in 1..5 : qry.rets[i] = "SUCCESS"
    /\ qry.made = <<"power", "perf">>
    /\ TimedOut
    /\ qry.published = {}

\* C35: the process never publishes "offline".  The availability message
\* becomes "offline" only in a step in which the connection is lost and the
\* broker publishes the registered will; the clean disconnect of the
\* shutdown leaves the last message as it is, so that a process that was
\* connected when it shut down leaves "online" behind
C35_OfflineOnlyByWill ==
    [][/\ (mqtt.avail # "offline" /\ mqtt'.avail = "offline") =>
             /\ mqtt.conn = "up" /\ mqtt'.conn = "lost"
             /\ mqtt.will = "offline"
             /\ mqtt'.availTopic = mqtt.willTopic
       /\ mqtt'.conn = "closed" => mqtt'.avail = mqtt.avail
       /\ (cfg.MQTTLWTEnable /\ mqtt.conn = "up" /\ mqtt'.conn = "closed")
             => mqtt'.avail = "online"]_vars

\* the process has exited after the signal and a clean disconnect, and
\* "online" is still the last availability message
C35_Witness ==
    /\ cfg.MQTTLWTEnable
    /\ pc = "exited" /\ ctxDone
    /\ mqtt.conn = "closed" /\ mqtt.avail = "online"

====
